---------------------------- MODULE Spec2Model ----------------------------
(***************************************************************************)
(* Model of the flowchart editor: CanvasManager (src/js/canvas.js), the    *)
(* shape table NodeTypes (src/unnamed/part_001) and ValidationEngine with  *)
(* the UI wiring of setupUIInteractions (src/js/validation.js).            *)
(*                                                                         *)
(* Coordinates are canvas pixels.  Every pointer position and every drop   *)
(* position of the model has even coordinates and every width and height   *)
(* the code produces from them is even, so the code's x / 2 is the exact   *)
(* integer x \div 2 on all values that occur.  Tests the code writes with  *)
(* a quotient (dx / halfWidth <= 1) are written cross-multiplied.          *)
(***************************************************************************)
EXTENDS Integers, Sequences, FiniteSets, TLC

VARIABLES
    nodes,               \* this.nodes: sequence of node records
    edges,               \* this.edges: sequence of edge records
    selectedItem,        \* this.selectedItem: a copy of a node or an edge, or Null
    hoveredItem,         \* this.hoveredItem: last hit-test result of an idle move
    mode,                \* this.mode
    scale,               \* this.scale
    offsetX,             \* this.offsetX
    offsetY,             \* this.offsetY
    isDragging,          \* this.isDragging
    isPanning,           \* this.isPanning
    isResizing,          \* this.isResizing
    resizeDirection,     \* this.resizeDirection
    startX,              \* this.startX
    startY,              \* this.startY
    connectionStartNode, \* this.connectionStartNode: a node id or NullId
    nodeCounter,         \* this.nodeCounter
    edgeCounter,         \* this.edgeCounter
    messages,            \* validationEngine.messages
    lastOp,              \* the operation that ran last, with its arguments
    result,              \* what the last operation returned
    notified,            \* graphs seen by onFlowchartChange during the last operation
    thrown,              \* TRUE when the last operation ended by an uncaught exception
    moves,               \* number of move events so far that moved a node or the camera
    snapshot,            \* the object saveFlowchart() returned to its caller, or Null
    localStorage         \* window.localStorage: key -> stored text, Null where absent

vars == <<nodes, edges, selectedItem, hoveredItem, mode, scale, offsetX, offsetY,
          isDragging, isPanning, isResizing, resizeDirection, startX, startY,
          connectionStartNode, nodeCounter, edgeCounter, messages,
          lastOp, result, notified, thrown, moves, snapshot, localStorage>>

---------------------------------------------------------------------------
(* Bounds of the model *)

MaxNodeId == 2
MaxEdgeId == 2
MaxMoves == 1
MaxSize == 300

(* JavaScript null, as an item and as an id *)
Null == [type |-> "null"]
NullId == <<"null", 0>>

(* `node_${n}` and `edge_${n}`: the two kinds of id never compare equal *)
NodeId(n) == <<"node", n>>
EdgeId(n) == <<"edge", n>>

Abs(v) == IF v < 0 THEN -v ELSE v
Max(a, b) == IF a > b THEN a ELSE b

---------------------------------------------------------------------------
(* NodeTypes: the shape table *)

NodeTypeNames == {"start", "process", "decision", "input", "end"}

defaultWidth(t) ==
    CASE t = "start" -> 100
      [] t = "process" -> 120
      [] t = "decision" -> 120
      [] t = "input" -> 120
      [] t = "end" -> 100

defaultHeight(t) ==
    CASE t = "start" -> 50
      [] t = "process" -> 60
      [] t = "decision" -> 80
      [] t = "input" -> 60
      [] t = "end" -> 50

(* start / end: ((x-nx)/(w/2))^2 + ((y-ny)/(h/2))^2 <= 1.  A point outside the
   bounding box has a quotient above 1 and is outside; inside the box the
   test is cross-multiplied by (w/2 * h/2)^2. *)
ellipseContainsPoint(node, x, y) ==
    LET hw == node.width \div 2
        hh == node.height \div 2
        dx == x - node.x
        dy == y - node.y
    IN  /\ Abs(dx) <= hw
        /\ Abs(dy) <= hh
        /\ (dx * hh) * (dx * hh) + (dy * hw) * (dy * hw) <= (hw * hh) * (hw * hh)

rectContainsPoint(node, x, y) ==
    /\ Abs(x - node.x) <= node.width \div 2
    /\ Abs(y - node.y) <= node.height \div 2

(* decision: |dx|/(w/2) + |dy|/(h/2) <= 1 *)
rhombusContainsPoint(node, x, y) ==
    LET hw == node.width \div 2
        hh == node.height \div 2
    IN  Abs(x - node.x) * hh + Abs(y - node.y) * hw <= hw * hh

(* input: offset = w/4, relY = (y-ny)/(h/2), leftX = nx - w/2 - offset*relY,
   rightX = nx + w/2 - offset*relY; multiplied by 4 * (h/2) *)
parallelogramContainsPoint(node, x, y) ==
    LET hw == node.width \div 2
        hh == node.height \div 2
        dy == y - node.y
    IN  /\ ~(Abs(dy) > hh)
        /\ 4 * hh * (x - node.x + hw) + node.width * dy >= 0
        /\ 4 * hh * (x - node.x - hw) + node.width * dy <= 0

containsPoint(node, x, y) ==
    CASE node.nodeType \in {"start", "end"} -> ellipseContainsPoint(node, x, y)
      [] node.nodeType = "process" -> rectContainsPoint(node, x, y)
      [] node.nodeType = "decision" -> rhombusContainsPoint(node, x, y)
      [] node.nodeType = "input" -> parallelogramContainsPoint(node, x, y)
      [] OTHER -> FALSE

---------------------------------------------------------------------------
(* Array helpers *)

(* nodes.find(n => n.id === id): the first match, or Null *)
findNode(ns, id) ==
    IF \E i \in 1..Len(ns) : ns[i].id = id
    THEN ns[CHOOSE i \in 1..Len(ns) :
                /\ ns[i].id = id
                /\ \A j \in 1..(i - 1) : ns[j].id # id]
    ELSE Null

hasNode(ns, id) == \E i \in 1..Len(ns) : ns[i].id = id

(* { type: 'node', ...node } *)
nodeItem(node) ==
    [type |-> "node", id |-> node.id, nodeType |-> node.nodeType, x |-> node.x,
     y |-> node.y, width |-> node.width, height |-> node.height, text |-> node.text]

(* { type: 'edge', ...edge } *)
edgeItem(edge) ==
    [type |-> "edge", id |-> edge.id, sourceId |-> edge.sourceId,
     targetId |-> edge.targetId, label |-> edge.label]

(* nodeType.charAt(0).toUpperCase() + nodeType.slice(1) *)
capitalize(t) ==
    CASE t = "start" -> "Start"
      [] t = "process" -> "Process"
      [] t = "decision" -> "Decision"
      [] t = "input" -> "Input"
      [] t = "end" -> "End"

---------------------------------------------------------------------------
(* ValidationEngine *)

(* A message is the template of the string the code builds, the node texts
   put into it and the number put into it. *)
Msg(kind, names, count) == [kind |-> kind, names |-> names, count |-> count]

NoStartMsg == Msg("No start node found", <<>>, 0)
MultipleStartMsg == Msg("Multiple start nodes found", <<>>, 0)
NoEndMsg == Msg("No end node found", <<>>, 0)

countType(ns, t) == Cardinality({i \in 1..Len(ns) : ns[i].nodeType = t})

(* validateFlowchart, the start-node and end-node checks *)
terminalMessages(ns) ==
    (IF countType(ns, "start") = 0 THEN <<NoStartMsg>>
     ELSE IF countType(ns, "start") > 1 THEN <<MultipleStartMsg>>
     ELSE <<>>)
    \o (IF countType(ns, "end") = 0 THEN <<NoEndMsg>> ELSE <<>>)

(* the connectivity check without the exemption of the start nodes *)
unconnectedMessageStartChecked(node, es) ==
    LET isEndNode == node.nodeType = "end"
        hasIncoming == \E i \in 1..Len(es) : es[i].targetId = node.id
        hasOutgoing == isEndNode \/ \E i \in 1..Len(es) : es[i].sourceId = node.id
    IN  IF ~hasIncoming /\ ~hasOutgoing
        THEN <<Msg("is completely disconnected", <<node.text>>, 0)>>
        ELSE IF ~hasIncoming
        THEN <<Msg("has no incoming connections", <<node.text>>, 0)>>
        ELSE IF ~hasOutgoing /\ ~isEndNode
        THEN <<Msg("has no outgoing connections", <<node.text>>, 0)>>
        ELSE <<>>

unconnectedMessage(node, es) ==
    LET isEndNode == node.nodeType = "end"
        isStartNode == node.nodeType = "start"
        hasIncoming == isStartNode \/ \E i \in 1..Len(es) : es[i].targetId = node.id
        hasOutgoing == isEndNode \/ \E i \in 1..Len(es) : es[i].sourceId = node.id
    IN  IF ~hasIncoming /\ ~hasOutgoing
        THEN <<Msg("is completely disconnected", <<node.text>>, 0)>>
        ELSE IF ~hasIncoming
        THEN <<Msg("has no incoming connections", <<node.text>>, 0)>>
        ELSE IF ~hasOutgoing /\ ~isEndNode
        THEN <<Msg("has no outgoing connections", <<node.text>>, 0)>>
        ELSE <<>>

checkUnconnectedNodes(ns, es) ==
    LET acc[i \in 0..Len(ns)] ==
            IF i = 0 THEN <<>> ELSE acc[i - 1] \o unconnectedMessage(ns[i], es)
    IN  acc[Len(ns)]

(* the adjacency list without the edges from a node to itself *)
adjacencyWithoutSelfLoops(es, id) ==
    LET acc[i \in 0..Len(es)] ==
            IF i = 0 THEN <<>>
            ELSE IF es[i].sourceId = id /\ es[i].targetId # id
            THEN Append(acc[i - 1], es[i].targetId)
            ELSE acc[i - 1]
    IN  acc[Len(es)]

(* graph[id]: the targets of the edges leaving id, in edge order.  The code
   builds an entry for each node id only; hasNode tells whether it exists. *)
adjacency(es, id) ==
    LET acc[i \in 0..Len(es)] ==
            IF i = 0 THEN <<>>
            ELSE IF es[i].sourceId = id THEN Append(acc[i - 1], es[i].targetId)
            ELSE acc[i - 1]
    IN  acc[Len(es)]

(* path.indexOf(id), 1-based; 0 when absent *)
indexOf(path, id) ==
    IF \E i \in 1..Len(path) : path[i] = id
    THEN CHOOSE i \in 1..Len(path) :
            /\ path[i] = id
            /\ \A j \in 1..(i - 1) : path[j] # id
    ELSE 0

(* node ? node.text : id *)
textOf(ns, id) == IF hasNode(ns, id) THEN findNode(ns, id).text ELSE id

cycleMessage(ns, path, neighbor) ==
    LET cycleStart == indexOf(path, neighbor)
        cycle == [i \in 1..(Len(path) - cycleStart + 1) |->
                      textOf(ns, path[cycleStart + i - 1])]
    IN  IF cycleStart # 0
        THEN Msg("Cycle detected:", Append(cycle, cycle[1]), 0)
        ELSE Msg("Cycle detected in the flowchart.", <<>>, 0)

(* dfs(nodeId, path).  st carries visited, recStack and the messages; ret is
   the call's return value, thrown the TypeError of iterating graph[nodeId]
   when nodeId is not a node. *)
RECURSIVE dfs(_, _, _, _, _)
RECURSIVE dfsNeighbors(_, _, _, _, _, _)

dfsNeighbors(ns, es, nodeId, path, i, st) ==
    LET nbrs == adjacency(es, nodeId) IN
    IF i > Len(nbrs)
    THEN [st EXCEPT !.recStack = @ \ {nodeId}, !.ret = FALSE]
    ELSE LET neighbor == nbrs[i] IN
         IF neighbor \notin st.visited
         THEN LET next(r) == IF r.thrown \/ r.ret THEN r
                             ELSE dfsNeighbors(ns, es, nodeId, path, i + 1, r)
              IN  next(dfs(ns, es, neighbor, path, st))
         ELSE IF neighbor \in st.recStack
         THEN [st EXCEPT !.messages = Append(@, cycleMessage(ns, path, neighbor)),
                         !.ret = TRUE]
         ELSE dfsNeighbors(ns, es, nodeId, path, i + 1, st)

dfs(ns, es, nodeId, path, st) ==
    LET st1 == [st EXCEPT !.visited = @ \cup {nodeId},
                          !.recStack = @ \cup {nodeId}]
    IN  IF ~hasNode(ns, nodeId)
        THEN [st1 EXCEPT !.thrown = TRUE]
        ELSE dfsNeighbors(ns, es, nodeId, Append(path, nodeId), 1, st1)

(* The two root loops of checkForCycles: first the start nodes, then, when
   there is no start node or some node is unvisited, every node. *)
dfsRoots(ns, es, roots, st0) ==
    LET acc[i \in 0..Len(roots)] ==
            IF i = 0 THEN st0
            ELSE IF acc[i - 1].thrown \/ roots[i].id \in acc[i - 1].visited
            THEN acc[i - 1]
            ELSE dfs(ns, es, roots[i].id, <<>>, acc[i - 1])
    IN  acc[Len(roots)]

isStart(node) == node.nodeType = "start"

checkForCycles(ns, es) ==
    LET st0 == [visited |-> {}, recStack |-> {}, messages |-> <<>>,
                ret |-> FALSE, thrown |-> FALSE]
        localStartNodes == SelectSeq(ns, isStart)
        otherNodes(st1) ==
            IF st1.thrown THEN st1
            ELSE IF Len(localStartNodes) = 0 \/ Cardinality(st1.visited) < Len(ns)
            THEN dfsRoots(ns, es, ns, st1)
            ELSE st1
    IN  otherNodes(dfsRoots(ns, es, localStartNodes, st0))

(* the decision check reporting the unlabeled paths whatever their number *)
decisionMessagesUnguarded(node, es) ==
    LET outgoingCount == Cardinality({i \in 1..Len(es) : es[i].sourceId = node.id})
        unlabeled == Cardinality({i \in 1..Len(es) :
                                     es[i].sourceId = node.id /\ es[i].label = ""})
    IN  (IF outgoingCount < 2
         THEN <<Msg("should have at least 2 outgoing paths", <<node.text>>, 0)>>
         ELSE <<>>)
        \o (IF unlabeled > 0
            THEN <<Msg("unlabeled outgoing paths", <<node.text>>, unlabeled)>>
            ELSE <<>>)

(* the decision check counting the paths only *)
decisionMessagesCountOnly(node, es) ==
    LET outgoingCount == Cardinality({i \in 1..Len(es) : es[i].sourceId = node.id})
    IN  IF outgoingCount < 2
        THEN <<Msg("should have at least 2 outgoing paths", <<node.text>>, 0)>>
        ELSE <<>>

decisionMessages(node, es) ==
    LET outgoingCount == Cardinality({i \in 1..Len(es) : es[i].sourceId = node.id})
        unlabeled == Cardinality({i \in 1..Len(es) :
                                     es[i].sourceId = node.id /\ es[i].label = ""})
    IN  (IF outgoingCount < 2
         THEN <<Msg("should have at least 2 outgoing paths", <<node.text>>, 0)>>
         ELSE <<>>)
        \o (IF outgoingCount >= 2 /\ unlabeled > 0
            THEN <<Msg("unlabeled outgoing paths", <<node.text>>, unlabeled)>>
            ELSE <<>>)

checkDecisionNodes(ns, es) ==
    LET acc[i \in 0..Len(ns)] ==
            IF i = 0 THEN <<>>
            ELSE IF ns[i].nodeType = "decision"
            THEN acc[i - 1] \o decisionMessages(ns[i], es)
            ELSE acc[i - 1]
    IN  acc[Len(ns)]

(* validateFlowchart: the message list it leaves and whether it threw.  The
   list is cleared first, so what a throwing run leaves is the messages
   added before the throw. *)
validateFlowchart(ns, es) ==
    IF Len(ns) = 0
    THEN [messages |-> <<>>, thrown |-> FALSE]
    ELSE LET rest(before, cyc) ==
                 IF cyc.thrown
                 THEN [messages |-> before \o cyc.messages, thrown |-> TRUE]
                 ELSE [messages |-> before \o cyc.messages
                                      \o checkDecisionNodes(ns, es),
                       thrown |-> FALSE]
         IN  rest(terminalMessages(ns) \o checkUnconnectedNodes(ns, es),
                  checkForCycles(ns, es))

---------------------------------------------------------------------------
(* CanvasManager: graph operations.  Each returns the fields it writes, the
   graphs onFlowchartChange saw (the callback of setupUIInteractions runs
   validateFlowchart) and whether that callback threw. *)

Modes == {"select", "connect", "delete"}
Handles == {"nw", "ne", "se", "sw"}

(* what an operation leaves in `result` when it returns nothing or throws *)
Undefined == [type |-> "undefined"]

(* the callback adding to the messages it finds *)
onFlowchartChangeAppending(ns, es) ==
    LET seen(v) == [messages |-> messages \o v.messages, thrown |-> v.thrown,
                    notified |-> <<[nodes |-> ns, edges |-> es]>>]
    IN  seen(validateFlowchart(ns, es))

(* if (this.onFlowchartChange) this.onFlowchartChange() *)
onFlowchartChange(ns, es) ==
    LET seen(v) == [messages |-> v.messages, thrown |-> v.thrown,
                    notified |-> <<[nodes |-> ns, edges |-> es]>>]
    IN  seen(validateFlowchart(ns, es))

(* newNode numbering the node by the length of the list *)
newNodeNumberedByLength(nodeType, x, y) ==
    [id |-> NodeId(Len(nodes) + 1), nodeType |-> nodeType, x |-> x, y |-> y,
     width |-> defaultWidth(nodeType), height |-> defaultHeight(nodeType),
     text |-> capitalize(nodeType)]

newNode(nodeType, x, y) ==
    [id |-> NodeId(nodeCounter + 1), nodeType |-> nodeType, x |-> x, y |-> y,
     width |-> defaultWidth(nodeType), height |-> defaultHeight(nodeType),
     text |-> capitalize(nodeType)]

addNode(nodeType, x, y) ==
    IF nodeType \notin NodeTypeNames
    THEN [nodes |-> nodes, nodeCounter |-> nodeCounter, result |-> Null,
          messages |-> messages, thrown |-> FALSE, notified |-> <<>>]
    ELSE LET node == newNode(nodeType, x, y)
             ns == Append(nodes, node)
             pushed(cb) ==
                 [nodes |-> ns, nodeCounter |-> nodeCounter + 1,
                  result |-> IF cb.thrown THEN Undefined ELSE node,
                  messages |-> cb.messages, thrown |-> cb.thrown,
                  notified |-> cb.notified]
         IN  pushed(onFlowchartChange(ns, edges))

(* existingEdge comparing the source only *)
existingEdgeBySource(es, sourceId, targetId) ==
    \E i \in 1..Len(es) : es[i].sourceId = sourceId

existingEdge(es, sourceId, targetId) ==
    \E i \in 1..Len(es) : es[i].sourceId = sourceId /\ es[i].targetId = targetId

newEdge(sourceId, targetId) ==
    [id |-> EdgeId(edgeCounter + 1), sourceId |-> sourceId, targetId |-> targetId,
     label |-> ""]

(* addEdge refusing equal ids *)
addEdgeRefusingSelfLoop(sourceId, targetId) ==
    IF existingEdge(edges, sourceId, targetId) \/ sourceId = targetId
    THEN [edges |-> edges, edgeCounter |-> edgeCounter, result |-> Null,
          messages |-> messages, thrown |-> FALSE, notified |-> <<>>]
    ELSE LET edge == newEdge(sourceId, targetId)
             es == Append(edges, edge)
             pushed(cb) ==
                 [edges |-> es, edgeCounter |-> edgeCounter + 1,
                  result |-> IF cb.thrown THEN Undefined ELSE edge,
                  messages |-> cb.messages, thrown |-> cb.thrown,
                  notified |-> cb.notified]
         IN  pushed(onFlowchartChange(nodes, es))

addEdge(sourceId, targetId) ==
    IF existingEdge(edges, sourceId, targetId)
    THEN [edges |-> edges, edgeCounter |-> edgeCounter, result |-> Null,
          messages |-> messages, thrown |-> FALSE, notified |-> <<>>]
    ELSE LET edge == newEdge(sourceId, targetId)
             es == Append(edges, edge)
             pushed(cb) ==
                 [edges |-> es, edgeCounter |-> edgeCounter + 1,
                  result |-> IF cb.thrown THEN Undefined ELSE edge,
                  messages |-> cb.messages, thrown |-> cb.thrown,
                  notified |-> cb.notified]
         IN  pushed(onFlowchartChange(nodes, es))

hasEdge(es, id) == \E i \in 1..Len(es) : es[i].id = id

(* this.nodes.filter(node => node.id !== item.id) *)
removeNode(ns, id) ==
    LET keep(n) == n.id # id IN SelectSeq(ns, keep)

(* the edge filter looking at the source only *)
removeOutgoingEdges(es, id) ==
    LET keep(e) == e.sourceId # id IN SelectSeq(es, keep)

(* this.edges.filter(edge => edge.sourceId !== item.id && edge.targetId !== item.id) *)
removeConnectedEdges(es, id) ==
    LET keep(e) == e.sourceId # id /\ e.targetId # id IN SelectSeq(es, keep)

(* this.edges.filter(edge => edge.id !== item.id) *)
removeEdge(es, id) ==
    LET keep(e) == e.id # id IN SelectSeq(es, keep)

(* deleteItem leaving the selection as it is *)
selectionKept(sel) == sel

(* what deleteItem leaves in this.selectedItem: selectItem(null) *)
selectionAfterDelete(sel) == Null

(* deleteItem notifying between the two filters *)
deleteItemNotifyingFirst(item) ==
    IF item.type = "null"
    THEN [nodes |-> nodes, edges |-> edges, selectedItem |-> selectedItem,
          messages |-> messages, thrown |-> FALSE, notified |-> <<>>]
    ELSE LET ns == IF item.type = "node" THEN removeNode(nodes, item.id) ELSE nodes
             es == IF item.type = "node" THEN removeConnectedEdges(edges, item.id)
                   ELSE IF item.type = "edge" THEN removeEdge(edges, item.id)
                   ELSE edges
             filtered(cb) ==
                 [nodes |-> ns, edges |-> es,
                  selectedItem |-> selectionAfterDelete(selectedItem),
                  messages |-> cb.messages, thrown |-> cb.thrown,
                  notified |-> cb.notified]
         IN  filtered(onFlowchartChange(ns, edges))

deleteItem(item) ==
    IF item.type = "null"
    THEN [nodes |-> nodes, edges |-> edges, selectedItem |-> selectedItem,
          messages |-> messages, thrown |-> FALSE, notified |-> <<>>]
    ELSE LET ns == IF item.type = "node" THEN removeNode(nodes, item.id) ELSE nodes
             es == IF item.type = "node" THEN removeConnectedEdges(edges, item.id)
                   ELSE IF item.type = "edge" THEN removeEdge(edges, item.id)
                   ELSE edges
             filtered(cb) ==
                 [nodes |-> ns, edges |-> es,
                  selectedItem |-> selectionAfterDelete(selectedItem),
                  messages |-> cb.messages, thrown |-> cb.thrown,
                  notified |-> cb.notified]
         IN  filtered(onFlowchartChange(ns, es))

(* updateNodeText: node.text = text on the first node of that id, then the
   callback; nothing at all when no node has the id *)
updateNodeText(nodeId, text) ==
    IF ~hasNode(nodes, nodeId)
    THEN [nodes |-> nodes, messages |-> messages, thrown |-> FALSE,
          notified |-> <<>>]
    ELSE LET k == indexOf([i \in 1..Len(nodes) |-> nodes[i].id], nodeId)
             ns == [nodes EXCEPT ![k].text = text]
             updated(cb) ==
                 [nodes |-> ns, messages |-> cb.messages, thrown |-> cb.thrown,
                  notified |-> cb.notified]
         IN  updated(onFlowchartChange(ns, edges))

(* updateEdgeLabel: edge.label = label on the first edge of that id, then
   the callback; nothing at all when no edge has the id *)
updateEdgeLabel(edgeId, label) ==
    IF ~hasEdge(edges, edgeId)
    THEN [edges |-> edges, messages |-> messages, thrown |-> FALSE,
          notified |-> <<>>]
    ELSE LET k == indexOf([i \in 1..Len(edges) |-> edges[i].id], edgeId)
             es == [edges EXCEPT ![k].label = label]
             updated(cb) ==
                 [edges |-> es, messages |-> cb.messages, thrown |-> cb.thrown,
                  notified |-> cb.notified]
         IN  updated(onFlowchartChange(nodes, es))

(* { nodes: [...this.nodes], edges: [...this.edges], nodeCounter, edgeCounter } *)
saveFlowchart ==
    [nodes |-> nodes, edges |-> edges, nodeCounter |-> nodeCounter,
     edgeCounter |-> edgeCounter]

(* The arrays of the object saveFlowchart returned are copies, their
   elements are the node and edge objects of the live arrays.  An object is
   known by its id as long as no id is issued twice (no clear, no load of
   other data): what an assignment to a field of a live object leaves in the
   returned object. *)
sharedWith(live, e) ==
    IF \E i \in 1..Len(live) : live[i].id = e.id
    THEN live[CHOOSE i \in 1..Len(live) : live[i].id = e.id]
    ELSE e
sharing(s, ns, es) ==
    IF s = Null THEN Null
    ELSE [s EXCEPT !.nodes = [i \in 1..Len(@) |-> sharedWith(ns, @[i])],
                   !.edges = [i \in 1..Len(@) |-> sharedWith(es, @[i])]]

(* !data || !data.nodes || !data.edges: data is null, or a record that
   lacks one of the collections *)
malformed(data) ==
    data = Null \/ "nodes" \notin DOMAIN data \/ "edges" \notin DOMAIN data

(* throw new Error('Invalid flowchart data'), the first statement *)
rejectedDeselecting ==
    [nodes |-> nodes, edges |-> edges,
     nodeCounter |-> nodeCounter, edgeCounter |-> edgeCounter,
     selectedItem |-> Null,
     messages |-> messages, thrown |-> TRUE, notified |-> <<>>]
rejected ==
    [nodes |-> nodes, edges |-> edges,
     nodeCounter |-> nodeCounter, edgeCounter |-> edgeCounter,
     selectedItem |-> selectedItem,
     messages |-> messages, thrown |-> TRUE, notified |-> <<>>]

(* data.nodeCounter || 0 *)
counterOf(data, field) == IF field \in DOMAIN data THEN data[field] ELSE 0

loadFlowchart(data) ==
    IF malformed(data) THEN rejected
    ELSE LET loaded(cb) ==
                 [nodes |-> data.nodes, edges |-> data.edges,
                  nodeCounter |-> counterOf(data, "nodeCounter"),
                  edgeCounter |-> counterOf(data, "edgeCounter"),
                  selectedItem |-> Null,
                  messages |-> cb.messages, thrown |-> cb.thrown,
                  notified |-> cb.notified]
         IN  loaded(onFlowchartChange(data.nodes, data.edges))

---------------------------------------------------------------------------
(* CanvasManager: hit testing *)

handleHit(c, corner) == Abs(c - (corner - 4)) <= 4

getResizeHandleAt(node, x, y) ==
    IF node = Null THEN "null"
    ELSE LET halfWidth == node.width \div 2
             halfHeight == node.height \div 2
         IN  IF handleHit(x, node.x - halfWidth) /\ handleHit(y, node.y - halfHeight)
             THEN "nw"
             ELSE IF handleHit(x, node.x + halfWidth) /\ handleHit(y, node.y - halfHeight)
             THEN "ne"
             ELSE IF handleHit(x, node.x + halfWidth) /\ handleHit(y, node.y + halfHeight)
             THEN "se"
             ELSE IF handleHit(x, node.x - halfWidth) /\ handleHit(y, node.y + halfHeight)
             THEN "sw"
             ELSE "null"

(* The edges the edge loop of getItemAtPosition does not skip: both end
   nodes are found.  Which of them the point is near (isPointNearLine on the
   two connection points, floating-point trigonometry) is an input of the
   pointer event: `near` is the index of the last such edge, 0 for none. *)
hittableEdges ==
    {i \in 1..Len(edges) : hasNode(nodes, edges[i].sourceId)
                           /\ hasNode(nodes, edges[i].targetId)}

NearChoices == {0} \cup hittableEdges

(* the last-inserted node containing the point: its index, 0 for none *)
topNodeAt(x, y) ==
    LET hits == {i \in 1..Len(nodes) : containsPoint(nodes[i], x, y)}
    IN  IF hits = {} THEN 0 ELSE CHOOSE i \in hits : \A j \in hits : j <= i

getItemAtPosition(x, y, near) ==
    LET selNode == IF selectedItem.type = "node"
                   THEN findNode(nodes, selectedItem.id)
                   ELSE Null
        handlePosition == IF selectedItem.type = "node"
                          THEN getResizeHandleAt(selNode, x, y)
                          ELSE "null"
    IN  IF handlePosition # "null"
        THEN [type |-> "resize-handle", nodeId |-> selNode.id,
              position |-> handlePosition]
        ELSE IF topNodeAt(x, y) # 0
        THEN nodeItem(nodes[topNodeAt(x, y)])
        ELSE IF near # 0
        THEN edgeItem(edges[near])
        ELSE Null

(* (clientX - rect.left) / this.scale - this.offsetX, the canvas at the
   viewport origin *)
viewportToCanvas(clientX, clientY) ==
    [x |-> clientX \div scale - offsetX, y |-> clientY \div scale - offsetY]

---------------------------------------------------------------------------
(* CanvasManager: the resize and drag steps of handleMouseMove *)

(* the resize switch without Math.max *)
resizedNodeWithoutFloor(node, dir, dx, dy) ==
    LET w == CASE dir \in {"nw", "sw"} -> node.width - dx
               [] dir \in {"ne", "se"} -> node.width + dx
               [] OTHER -> node.width
        h == CASE dir \in {"nw", "ne"} -> node.height - dy
               [] dir \in {"se", "sw"} -> node.height + dy
               [] OTHER -> node.height
    IN  IF dir \in Handles
        THEN [node EXCEPT !.width = w, !.height = h,
                          !.x = @ + dx \div 2, !.y = @ + dy \div 2]
        ELSE node

(* the switch on this.resizeDirection, with node.x += dx / 2, node.y += dy / 2 *)
resizedNode(node, dir, dx, dy) ==
    LET w == CASE dir \in {"nw", "sw"} -> Max(50, node.width - dx)
               [] dir \in {"ne", "se"} -> Max(50, node.width + dx)
               [] OTHER -> node.width
        h == CASE dir \in {"nw", "ne"} -> Max(30, node.height - dy)
               [] dir \in {"se", "sw"} -> Max(30, node.height + dy)
               [] OTHER -> node.height
    IN  IF dir \in Handles
        THEN [node EXCEPT !.width = w, !.height = h,
                          !.x = @ + dx \div 2, !.y = @ + dy \div 2]
        ELSE node

(* the drag step without node.y += dy *)
draggedNodeAlongX(node, dx, dy) == [node EXCEPT !.x = @ + dx]

(* node.x += dx; node.y += dy *)
draggedNode(node, dx, dy) == [node EXCEPT !.x = @ + dx, !.y = @ + dy]

(* the node found by id is mutated in place: replace it in the list *)
replaceNode(ns, id, node) ==
    LET k == indexOf([i \in 1..Len(ns) |-> ns[i].id], id)
    IN  [ns EXCEPT ![k] = node]

---------------------------------------------------------------------------
(* StorageManager.  A stored text is modelled by its JSON syntax tree:
   JSON.stringify builds the tree of an array of names or of a flowchart,
   JSON.parse rebuilds the value from a tree.  localStorage.setItem throws
   when the browser refuses the write: a DOMException named
   QuotaExceededError, or another exception. *)

FLOWCHART_LIST_KEY == "flowcharter_flowchart_list"
FLOWCHART_PREFIX == "flowcharter_flowchart_"

FlowchartNames == {"a", "b", "list"}
flowchartKey(name) == FLOWCHART_PREFIX \o name
StorageKeys == {FLOWCHART_LIST_KEY} \cup {flowchartKey(name) : name \in FlowchartNames}
WriteOutcomes == {"ok", "QuotaExceededError", "SecurityError"}

jsonString(str) == [json |-> "string", value |-> str]
jsonNumber(num) == [json |-> "number", value |-> num]
jsonArray(items) == [json |-> "array", items |-> items]
jsonObject(members) == [json |-> "object", members |-> members]
member(key, text) == [key |-> key, text |-> text]

stringifyList(list) == jsonArray([i \in 1..Len(list) |-> jsonString(list[i])])
stringifyNode(node) ==
    jsonObject(<<member("id", jsonString(node.id)),
                 member("nodeType", jsonString(node.nodeType)),
                 member("x", jsonNumber(node.x)),
                 member("y", jsonNumber(node.y)),
                 member("width", jsonNumber(node.width)),
                 member("height", jsonNumber(node.height)),
                 member("text", jsonString(node.text))>>)
stringifyEdge(edge) ==
    jsonObject(<<member("id", jsonString(edge.id)),
                 member("sourceId", jsonString(edge.sourceId)),
                 member("targetId", jsonString(edge.targetId)),
                 member("label", jsonString(edge.label))>>)
stringifyFlowchart(data) ==
    jsonObject(<<member("nodes",
                        jsonArray([i \in 1..Len(data.nodes) |-> stringifyNode(data.nodes[i])])),
                 member("edges",
                        jsonArray([i \in 1..Len(data.edges) |-> stringifyEdge(data.edges[i])])),
                 member("nodeCounter", jsonNumber(data.nodeCounter)),
                 member("edgeCounter", jsonNumber(data.edgeCounter))>>)

RECURSIVE parse(_)
parse(text) ==
    CASE text.json = "array" -> [i \in 1..Len(text.items) |-> parse(text.items[i])]
      [] text.json = "object" ->
            [key \in {text.members[i].key : i \in 1..Len(text.members)} |->
                parse(text.members[CHOOSE i \in 1..Len(text.members) :
                                      /\ text.members[i].key = key
                                      /\ \A j \in 1..Len(text.members) :
                                            text.members[j].key = key => j <= i].text)]
      [] OTHER -> text.value

getItem(storage, key) == storage[key]
setItem(storage, key, text, outcome) ==
    IF outcome = "ok" THEN [storage EXCEPT ![key] = text] ELSE storage
removeItem(storage, key) == [storage EXCEPT ![key] = Null]

emptyStorage == [key \in StorageKeys |-> Null]
initializeStorage(storage) ==
    IF getItem(storage, FLOWCHART_LIST_KEY) = Null
    THEN setItem(storage, FLOWCHART_LIST_KEY, stringifyList(<<>>), "ok")
    ELSE storage

(* JSON.parse(...) || []: what is stored under the list key need not be an
   array; includes and indexOf exist on arrays only *)
listIsArray(storage) ==
    getItem(storage, FLOWCHART_LIST_KEY) = Null
    \/ getItem(storage, FLOWCHART_LIST_KEY).json = "array"
getFlowchartList(storage) ==
    IF getItem(storage, FLOWCHART_LIST_KEY) = Null THEN <<>>
    ELSE parse(getItem(storage, FLOWCHART_LIST_KEY))
includes(list, name) == \E i \in 1..Len(list) : list[i] = name
splice(list, index) == [i \in 1..(Len(list) - 1) |-> IF i < index THEN list[i] ELSE list[i + 1]]

returned(storage, value) == [storage |-> storage, thrown |-> FALSE, value |-> value]
failed(storage, message) ==
    [storage |-> storage, thrown |-> TRUE, value |-> [error |-> message]]

QuotaMessage == "Storage quota exceeded. Try deleting some flowcharts first."
SaveFailedMessage == "Failed to save flowchart"
DeleteFailedMessage == "Failed to delete flowchart"
notFoundMessage(name) == "Flowchart \"" \o name \o "\" not found"

(* the catch block of saveFlowchart; updateFlowchartList has replaced the
   exception of its write by an Error of its own *)
saveError(exception) ==
    IF exception = "QuotaExceededError" THEN QuotaMessage ELSE SaveFailedMessage

StorageManager_saveFlowchart(storage, name, data, listWrite, dataWrite) ==
    IF ~listIsArray(storage)
    THEN failed(storage, saveError("TypeError"))
    ELSE LET list == getFlowchartList(storage)
             isNew == ~includes(list, name)
             listed == IF isNew
                       THEN setItem(storage, FLOWCHART_LIST_KEY,
                                    stringifyList(Append(list, name)), listWrite)
                       ELSE storage
         IN  IF isNew /\ listWrite # "ok"
             THEN failed(storage, saveError("Error"))
             ELSE IF dataWrite # "ok"
             THEN failed(listed, saveError(dataWrite))
             ELSE returned(setItem(listed, flowchartKey(name),
                                   stringifyFlowchart(data), dataWrite), TRUE)

StorageManager_loadFlowchart(storage, name) ==
    IF getItem(storage, flowchartKey(name)) = Null
    THEN failed(storage, "Failed to load flowchart: " \o notFoundMessage(name))
    ELSE returned(storage, parse(getItem(storage, flowchartKey(name))))

StorageManager_deleteFlowchart(storage, name, listWrite) ==
    IF ~listIsArray(storage)
    THEN failed(storage, DeleteFailedMessage)
    ELSE LET list == getFlowchartList(storage)
             index == indexOf(list, name)
         IN  IF index = 0
             THEN failed(storage, DeleteFailedMessage)
             ELSE IF listWrite # "ok"
             THEN failed(storage, DeleteFailedMessage)
             ELSE returned(removeItem(setItem(storage, FLOWCHART_LIST_KEY,
                                              stringifyList(splice(list, index)),
                                              listWrite),
                                      flowchartKey(name)), TRUE)

---------------------------------------------------------------------------
graphVars == <<nodes, edges, nodeCounter, edgeCounter>>
cameraVars == <<scale, offsetX, offsetY>>
gestureVars == <<isDragging, isPanning, isResizing, resizeDirection>>

(* the fields of the constructor other than the graph and the camera *)
InitEditor ==
    /\ selectedItem = Null
    /\ hoveredItem = Null
    /\ mode = "select"
    /\ isDragging = FALSE
    /\ isPanning = FALSE
    /\ isResizing = FALSE
    /\ resizeDirection = "null"
    /\ startX = 0
    /\ startY = 0
    /\ connectionStartNode = NullId
    /\ messages = <<>>
    /\ lastOp = [name |-> "constructor", args |-> <<>>]
    /\ result = Undefined
    /\ notified = <<>>
    /\ thrown = FALSE
    /\ moves = 0
    /\ snapshot = Null
    /\ localStorage = initializeStorage(emptyStorage)

(* the fields of the constructor other than the camera *)
InitFields ==
    /\ nodes = <<>>
    /\ edges = <<>>
    /\ nodeCounter = 0
    /\ edgeCounter = 0
    /\ InitEditor

Init ==
    /\ InitFields
    /\ scale = 1
    /\ offsetX = 0
    /\ offsetY = 0

---------------------------------------------------------------------------
(* The drop listener of setupUIInteractions: addNode(nodeType, x, y), then
   validateFlowchart() *)
OnDrop(nodeType, clientX, clientY) ==
    \E p \in {viewportToCanvas(clientX, clientY)} :
    \E r \in {addNode(nodeType, p.x, p.y)} :
    \E v \in {IF r.thrown THEN [messages |-> r.messages, thrown |-> TRUE]
                         ELSE validateFlowchart(r.nodes, edges)} :
        /\ lastOp' = [name |-> "addNode", args |-> <<nodeType>>]
        /\ nodes' = r.nodes
        /\ nodeCounter' = r.nodeCounter
        /\ result' = r.result
        /\ notified' = r.notified
        /\ messages' = v.messages
        /\ thrown' = v.thrown
        /\ UNCHANGED <<edges, edgeCounter, selectedItem, hoveredItem, mode, cameraVars,
                       gestureVars, startX, startY, connectionStartNode, moves, snapshot, localStorage>>

(* setMode clearing the pending source whatever the mode *)
pendingAlwaysCleared(m, pending) == NullId

(* what setMode leaves in this.connectionStartNode *)
pendingAfterSetMode(m, pending) == IF m # "connect" THEN NullId ELSE pending

setMode(m) ==
    /\ mode' = m
    /\ connectionStartNode' = pendingAfterSetMode(m, connectionStartNode)
    /\ selectedItem' = Null
    /\ lastOp' = [name |-> "setMode", args |-> <<>>]
    /\ result' = Undefined
    /\ notified' = <<>>
    /\ thrown' = FALSE
    /\ UNCHANGED <<graphVars, hoveredItem, cameraVars, gestureVars, startX, startY,
                   messages, moves, snapshot, localStorage>>

---------------------------------------------------------------------------
(* handleMouseDown *)

(* a select-mode pointer-down that would start a drag on an edge as well *)
mouseDownSelectDraggingEdges(item) ==
    /\ IF item.type = "null"
       THEN /\ selectedItem' = Null
            /\ isPanning' = TRUE
            /\ UNCHANGED <<isDragging, isResizing, resizeDirection>>
       ELSE IF item.type = "resize-handle"
       THEN LET node == findNode(nodes, item.nodeId)
            IN  /\ isResizing' = TRUE
                /\ resizeDirection' = item.position
                /\ selectedItem' =
                       IF node # Null
                          /\ (selectedItem.type = "null" \/ selectedItem.id # node.id)
                       THEN nodeItem(node)
                       ELSE selectedItem
                /\ UNCHANGED <<isDragging, isPanning>>
       ELSE /\ selectedItem' = item
            /\ isDragging' = TRUE
            /\ UNCHANGED <<isPanning, isResizing, resizeDirection>>
    /\ notified' = <<>>
    /\ thrown' = FALSE
    /\ UNCHANGED <<nodes, edges, edgeCounter, connectionStartNode, messages>>

mouseDownSelect(item) ==
    /\ IF item.type = "null"
       THEN /\ selectedItem' = Null
            /\ isPanning' = TRUE
            /\ UNCHANGED <<isDragging, isResizing, resizeDirection>>
       ELSE IF item.type = "resize-handle"
       THEN LET node == findNode(nodes, item.nodeId)
            IN  /\ isResizing' = TRUE
                /\ resizeDirection' = item.position
                /\ selectedItem' =
                       IF node # Null
                          /\ (selectedItem.type = "null" \/ selectedItem.id # node.id)
                       THEN nodeItem(node)
                       ELSE selectedItem
                /\ UNCHANGED <<isDragging, isPanning>>
       ELSE /\ selectedItem' = item
            /\ isDragging' = (isDragging \/ item.type = "node")
            /\ UNCHANGED <<isPanning, isResizing, resizeDirection>>
    /\ notified' = <<>>
    /\ thrown' = FALSE
    /\ UNCHANGED <<nodes, edges, edgeCounter, connectionStartNode, messages>>

mouseDownConnect(item) ==
    /\ IF item.type = "node" /\ connectionStartNode = NullId
       THEN /\ connectionStartNode' = item.id
            /\ notified' = <<>>
            /\ thrown' = FALSE
            /\ UNCHANGED <<edges, edgeCounter, messages>>
       ELSE IF item.type = "node" /\ item.id # connectionStartNode
       THEN \E r \in {addEdge(connectionStartNode, item.id)} :
                /\ edges' = r.edges
                /\ edgeCounter' = r.edgeCounter
                /\ messages' = r.messages
                /\ notified' = r.notified
                /\ thrown' = r.thrown
                /\ connectionStartNode' =
                       IF r.thrown THEN connectionStartNode ELSE NullId
       ELSE /\ notified' = <<>>
            /\ thrown' = FALSE
            /\ UNCHANGED <<edges, edgeCounter, messages, connectionStartNode>>
    /\ UNCHANGED <<nodes, selectedItem, gestureVars>>

mouseDownDelete(item) ==
    \E r \in {deleteItem(item)} :
        /\ nodes' = r.nodes
        /\ edges' = r.edges
        /\ selectedItem' = r.selectedItem
        /\ messages' = r.messages
        /\ notified' = r.notified
        /\ thrown' = r.thrown
        /\ UNCHANGED <<edgeCounter, connectionStartNode, gestureVars>>

handleMouseDown(clientX, clientY, near) ==
    \E p \in {viewportToCanvas(clientX, clientY)} :
    \E item \in {getItemAtPosition(p.x, p.y, near)} :
        /\ startX' = p.x
        /\ startY' = p.y
        /\ lastOp' = [name |-> "handleMouseDown", args |-> <<>>]
        /\ result' = Undefined
        /\ CASE mode = "select" -> mouseDownSelect(item)
             [] mode = "connect" -> mouseDownConnect(item)
             [] mode = "delete" -> mouseDownDelete(item)
        /\ UNCHANGED <<hoveredItem, mode, cameraVars, nodeCounter, moves, snapshot, localStorage>>

---------------------------------------------------------------------------
(* handleMouseMove *)

movedBy(dx, dy) == IF dx # 0 \/ dy # 0 THEN 1 ELSE 0

mouseMoveDrag(x, y) ==
    LET node == findNode(nodes, selectedItem.id)
        dx == x - startX
        dy == y - startY
    IN  IF node = Null
        THEN /\ notified' = <<>>
             /\ thrown' = FALSE
             /\ UNCHANGED <<nodes, selectedItem, startX, startY, messages, moves, snapshot, localStorage>>
        ELSE \E moved \in {draggedNode(node, dx, dy)} :
             \E ns \in {replaceNode(nodes, node.id, moved)} :
             \E cb \in {onFlowchartChange(ns, edges)} :
             /\ nodes' = ns
             /\ selectedItem' = [selectedItem EXCEPT !.x = moved.x, !.y = moved.y]
             /\ startX' = x
             /\ startY' = y
             /\ messages' = cb.messages
             /\ notified' = cb.notified
             /\ thrown' = cb.thrown
             /\ moves' = moves + movedBy(dx, dy)
             /\ snapshot' = sharing(snapshot, ns, edges)
             /\ UNCHANGED localStorage

mouseMoveResize(x, y) ==
    LET node == findNode(nodes, selectedItem.id)
        dx == x - startX
        dy == y - startY
    IN  IF node = Null
        THEN /\ notified' = <<>>
             /\ thrown' = FALSE
             /\ UNCHANGED <<nodes, selectedItem, startX, startY, messages, moves, snapshot, localStorage>>
        ELSE \E sized \in {resizedNode(node, resizeDirection, dx, dy)} :
             \E ns \in {replaceNode(nodes, node.id, sized)} :
             \E cb \in {onFlowchartChange(ns, edges)} :
             /\ nodes' = ns
             /\ selectedItem' = [selectedItem EXCEPT !.x = sized.x, !.y = sized.y,
                                     !.width = sized.width, !.height = sized.height]
             /\ startX' = x
             /\ startY' = y
             /\ messages' = cb.messages
             /\ notified' = cb.notified
             /\ thrown' = cb.thrown
             /\ moves' = moves + movedBy(dx, dy)
             /\ snapshot' = sharing(snapshot, ns, edges)
             /\ UNCHANGED localStorage

mouseMovePan(x, y) ==
    LET dx == x - startX
        dy == y - startY
    IN  /\ offsetX' = offsetX + dx
        /\ offsetY' = offsetY + dy
        /\ startX' = x - dx
        /\ startY' = y - dy
        /\ moves' = moves + movedBy(dx, dy)
        /\ UNCHANGED <<snapshot, localStorage>>

handleMouseMove(clientX, clientY, near) ==
    \E p \in {viewportToCanvas(clientX, clientY)} :
    \E x \in {p.x}, y \in {p.y} :
        /\ lastOp' = [name |-> "handleMouseMove", args |-> <<>>]
        /\ result' = Undefined
        /\ IF isDragging /\ selectedItem.type = "node"
           THEN /\ mouseMoveDrag(x, y)
                /\ UNCHANGED <<hoveredItem, offsetX, offsetY>>
           ELSE IF isResizing /\ selectedItem.type = "node"
           THEN /\ mouseMoveResize(x, y)
                /\ UNCHANGED <<hoveredItem, offsetX, offsetY>>
           ELSE IF isPanning
           THEN /\ mouseMovePan(x, y)
                /\ notified' = <<>>
                /\ thrown' = FALSE
                /\ UNCHANGED <<nodes, selectedItem, hoveredItem, messages>>
           ELSE /\ hoveredItem' = getItemAtPosition(x, y, near)
                /\ notified' = <<>>
                /\ thrown' = FALSE
                /\ UNCHANGED <<nodes, selectedItem, startX, startY, messages,
                               offsetX, offsetY, moves, snapshot, localStorage>>
        /\ UNCHANGED <<edges, mode, scale, gestureVars, connectionStartNode,
                       nodeCounter, edgeCounter>>

---------------------------------------------------------------------------
(* handleMouseUp *)

handleMouseUp ==
    LET connects == /\ mode = "connect"
                    /\ connectionStartNode # NullId
                    /\ hoveredItem.type = "node"
                    /\ hoveredItem.id # connectionStartNode
        unchanged == [edges |-> edges, edgeCounter |-> edgeCounter,
                      messages |-> messages, notified |-> <<>>, thrown |-> FALSE]
    IN  \E r \in {IF connects THEN addEdge(connectionStartNode, hoveredItem.id)
                              ELSE unchanged} :
        /\ lastOp' = [name |-> "handleMouseUp", args |-> <<>>]
        /\ result' = Undefined
        /\ edges' = r.edges
        /\ edgeCounter' = r.edgeCounter
        /\ messages' = r.messages
        /\ notified' = r.notified
        /\ thrown' = r.thrown
        /\ IF r.thrown
           THEN UNCHANGED <<gestureVars, connectionStartNode>>
           ELSE /\ isDragging' = FALSE
                /\ isPanning' = FALSE
                /\ isResizing' = FALSE
                /\ resizeDirection' = "null"
                /\ connectionStartNode' =
                       IF mode # "connect" THEN NullId ELSE connectionStartNode
        /\ UNCHANGED <<nodes, nodeCounter, selectedItem, hoveredItem, mode, cameraVars,
                       startX, startY, moves, snapshot, localStorage>>

---------------------------------------------------------------------------
(* Touch events: a single touch is handed to the mouse handlers, any other
   number of touches is ignored; touchend always runs handleMouseUp. *)

handleTouchStart(touches, clientX, clientY, near) ==
    IF touches = 1 THEN handleMouseDown(clientX, clientY, near) ELSE UNCHANGED vars

handleTouchMove(touches, clientX, clientY, near) ==
    IF touches = 1 THEN handleMouseMove(clientX, clientY, near) ELSE UNCHANGED vars

handleTouchEnd == handleMouseUp

---------------------------------------------------------------------------
(* The editor driven by its user: drops from the palette, the three tool
   buttons, mouse and touch events on the canvas. *)

(* The k-th node is dropped at the k-th place of the viewport, as the k-th
   shape of the palette. *)
Palette == <<[nodeType |-> "start", x |-> 0, y |-> 0],
             [nodeType |-> "process", x |-> 200, y |-> 0],
             [nodeType |-> "decision", x |-> 0, y |-> 200]>>
DropInputs ==
    {Palette[k] : k \in {nodeCounter + 1} \cap (1..Len(Palette))}

(* pointer positions: the centre of the first node and the south-east
   corner of the second *)
Points == {[x |-> 0, y |-> 0], [x |-> 260, y |-> 30]}
TouchCounts == {1, 2}

(* the part of the state space the bounds keep *)
Bounded ==
    /\ nodeCounter' <= MaxNodeId
    /\ edgeCounter' <= MaxEdgeId
    /\ moves' <= MaxMoves
    /\ \A i \in 1..Len(nodes') :
           nodes'[i].width <= MaxSize /\ nodes'[i].height <= MaxSize

Drop == \E d \in DropInputs : OnDrop(d.nodeType, d.x, d.y) /\ Bounded
SetMode == \E m \in Modes : setMode(m)
MouseDown ==
    \E p \in Points, near \in NearChoices : handleMouseDown(p.x, p.y, near) /\ Bounded
MouseMove ==
    \E p \in Points, near \in NearChoices : handleMouseMove(p.x, p.y, near) /\ Bounded
MouseUp == handleMouseUp /\ Bounded
TouchStart ==
    \E n \in TouchCounts, p \in Points, near \in NearChoices :
        handleTouchStart(n, p.x, p.y, near) /\ Bounded
TouchMove ==
    \E n \in TouchCounts, p \in Points, near \in NearChoices :
        handleTouchMove(n, p.x, p.y, near) /\ Bounded
TouchEnd == handleTouchEnd /\ Bounded

Next ==
    \/ Drop
    \/ SetMode
    \/ MouseDown
    \/ MouseMove
    \/ MouseUp
    \/ TouchStart
    \/ TouchMove
    \/ TouchEnd

Spec == Init /\ [][Next]_vars

---------------------------------------------------------------------------
(* The graph store driven through the methods of CanvasManager: the calls
   are made with every argument, ids of entities that are gone or were
   never there included. *)

uiVars == <<hoveredItem, mode, cameraVars, gestureVars, startX, startY,
            connectionStartNode, moves, snapshot, localStorage>>

AddNodeCall(nodeType, x, y) ==
    \E r \in {addNode(nodeType, x, y)} :
        /\ lastOp' = [name |-> "addNode", args |-> <<nodeType>>]
        /\ nodes' = r.nodes
        /\ nodeCounter' = r.nodeCounter
        /\ result' = r.result
        /\ messages' = r.messages
        /\ notified' = r.notified
        /\ thrown' = r.thrown
        /\ UNCHANGED <<edges, edgeCounter, selectedItem, uiVars>>

AddEdgeCall(sourceId, targetId) ==
    \E r \in {addEdge(sourceId, targetId)} :
        /\ lastOp' = [name |-> "addEdge", args |-> <<sourceId, targetId>>]
        /\ edges' = r.edges
        /\ edgeCounter' = r.edgeCounter
        /\ result' = r.result
        /\ messages' = r.messages
        /\ notified' = r.notified
        /\ thrown' = r.thrown
        /\ UNCHANGED <<nodes, nodeCounter, selectedItem, uiVars>>

DeleteItemCall(item) ==
    \E r \in {deleteItem(item)} :
        /\ lastOp' = [name |-> "deleteItem", args |-> <<item>>]
        /\ nodes' = r.nodes
        /\ edges' = r.edges
        /\ selectedItem' = r.selectedItem
        /\ result' = Undefined
        /\ messages' = r.messages
        /\ notified' = r.notified
        /\ thrown' = r.thrown
        /\ UNCHANGED <<nodeCounter, edgeCounter, uiVars>>

(* selectItem(item): this.selectedItem = item *)
SelectItemCall(item) ==
    /\ lastOp' = [name |-> "selectItem", args |-> <<item>>]
    /\ selectedItem' = item
    /\ result' = Undefined
    /\ notified' = <<>>
    /\ thrown' = FALSE
    /\ UNCHANGED <<graphVars, messages, uiVars>>

(* clear(): everything of the graph and of the selection is reset, the
   camera, the mode and the gesture flags are not *)
clear ==
    \E cb \in {onFlowchartChange(<<>>, <<>>)} :
        /\ lastOp' = [name |-> "clear", args |-> <<>>]
        /\ nodes' = <<>>
        /\ edges' = <<>>
        /\ selectedItem' = Null
        /\ hoveredItem' = Null
        /\ connectionStartNode' = NullId
        /\ nodeCounter' = 0
        /\ edgeCounter' = 0
        /\ result' = Undefined
        /\ messages' = cb.messages
        /\ notified' = cb.notified
        /\ thrown' = cb.thrown
        /\ UNCHANGED <<mode, cameraVars, gestureVars, startX, startY, moves, snapshot, localStorage>>

LoadCall(data, origin) ==
    \E r \in {loadFlowchart(data)} :
        /\ lastOp' = [name |-> "loadFlowchart", args |-> <<origin, data>>]
        /\ nodes' = r.nodes
        /\ edges' = r.edges
        /\ nodeCounter' = r.nodeCounter
        /\ edgeCounter' = r.edgeCounter
        /\ selectedItem' = r.selectedItem
        /\ result' = Undefined
        /\ messages' = r.messages
        /\ notified' = r.notified
        /\ thrown' = r.thrown
        /\ UNCHANGED uiVars

UpdateNodeTextCall(nodeId, text) ==
    \E r \in {updateNodeText(nodeId, text)} :
        /\ lastOp' = [name |-> "updateNodeText", args |-> <<nodeId, text>>]
        /\ nodes' = r.nodes
        /\ snapshot' = sharing(snapshot, r.nodes, edges)
        /\ UNCHANGED localStorage
        /\ result' = Undefined
        /\ messages' = r.messages
        /\ notified' = r.notified
        /\ thrown' = r.thrown
        /\ UNCHANGED <<edges, nodeCounter, edgeCounter, selectedItem, hoveredItem,
                       mode, cameraVars, gestureVars, startX, startY,
                       connectionStartNode, moves>>

UpdateEdgeLabelCall(edgeId, label) ==
    \E r \in {updateEdgeLabel(edgeId, label)} :
        /\ lastOp' = [name |-> "updateEdgeLabel", args |-> <<edgeId, label>>]
        /\ edges' = r.edges
        /\ snapshot' = sharing(snapshot, nodes, r.edges)
        /\ UNCHANGED localStorage
        /\ result' = Undefined
        /\ messages' = r.messages
        /\ notified' = r.notified
        /\ thrown' = r.thrown
        /\ UNCHANGED <<nodes, nodeCounter, edgeCounter, selectedItem, hoveredItem,
                       mode, cameraVars, gestureVars, startX, startY,
                       connectionStartNode, moves>>

(* const s = canvasManager.saveFlowchart(): the caller keeps the object *)
SaveCall ==
    /\ lastOp' = [name |-> "saveFlowchart", args |-> <<>>]
    /\ snapshot' = saveFlowchart
    /\ UNCHANGED localStorage
    /\ result' = saveFlowchart
    /\ notified' = <<>>
    /\ thrown' = FALSE
    /\ UNCHANGED <<graphVars, selectedItem, hoveredItem, mode, cameraVars,
                   gestureVars, startX, startY, connectionStartNode, messages,
                   moves>>

(* the arguments of the calls *)
CallTypes == {"start", "decision", "bogus"}
NodeIds == {NodeId(k) : k \in 1..MaxNodeId}
EdgeIds == {EdgeId(k) : k \in 1..MaxEdgeId}
ItemRefs ==
    {Null} \cup {[type |-> "node", id |-> id] : id \in NodeIds}
           \cup {[type |-> "edge", id |-> id] : id \in EdgeIds}
(* what the callers of selectItem pass: null or a copy of a live entity *)
LiveItems ==
    {Null} \cup {nodeItem(nodes[i]) : i \in 1..Len(nodes)}
           \cup {edgeItem(edges[i]) : i \in 1..Len(edges)}
(* a chart stored by an earlier session *)
StoredChart ==
    [nodes |-> <<[id |-> NodeId(1), nodeType |-> "end", x |-> 0, y |-> 0,
                  width |-> 100, height |-> 50, text |-> "End"]>>,
     edges |-> <<>>, nodeCounter |-> 1, edgeCounter |-> 0]

GraphAddNode == \E t \in CallTypes : AddNodeCall(t, 0, 0) /\ Bounded
GraphAddEdge == \E a \in NodeIds, b \in NodeIds : AddEdgeCall(a, b) /\ Bounded
GraphDelete == \E item \in ItemRefs : DeleteItemCall(item)
GraphSelect == \E item \in LiveItems : SelectItemCall(item)
GraphClear == clear
GraphRoundTrip == LoadCall(saveFlowchart, "saved")
GraphLoad == LoadCall(StoredChart, "stored")
(* what a caller can pass instead of a chart *)
MalformedData ==
    {Null,
     [edges |-> <<>>, nodeCounter |-> 0, edgeCounter |-> 0],
     [nodes |-> StoredChart.nodes, nodeCounter |-> 1, edgeCounter |-> 0]}
GraphLoadMalformed == \E data \in MalformedData : LoadCall(data, "malformed")

NextGraph ==
    \/ GraphAddNode
    \/ GraphAddEdge
    \/ GraphDelete
    \/ GraphSelect
    \/ GraphClear
    \/ GraphRoundTrip
    \/ GraphLoad
    \/ GraphLoadMalformed

SpecGraph == Init /\ [][NextGraph]_vars

---------------------------------------------------------------------------
(* The graph edited through every method that changes it, the texts and
   labels included, with the validation engine called on its own as
   well. *)

Texts == {"Go"}
Labels == {"yes"}

Retext ==
    \E i \in 1..Len(nodes), text \in Texts : UpdateNodeTextCall(nodes[i].id, text)
Relabel ==
    \E i \in 1..Len(edges), label \in Labels : UpdateEdgeLabelCall(edges[i].id, label)

(* validationEngine.validateFlowchart() *)
Validate ==
    \E v \in {validateFlowchart(nodes, edges)} :
        /\ lastOp' = [name |-> "validateFlowchart", args |-> <<>>]
        /\ messages' = v.messages
        /\ thrown' = v.thrown
        /\ result' = Undefined
        /\ notified' = <<>>
        /\ UNCHANGED <<graphVars, selectedItem, uiVars>>

(* selectItem of the first node of the list *)
EditSelect == Len(nodes) > 0 /\ SelectItemCall(nodeItem(nodes[1]))

NextEdit ==
    \/ GraphAddNode
    \/ GraphAddEdge
    \/ GraphDelete
    \/ EditSelect
    \/ Retext
    \/ Relabel
    \/ GraphClear
    \/ GraphLoad
    \/ GraphRoundTrip
    \/ Validate

SpecEdit == Init /\ [][NextEdit]_vars

---------------------------------------------------------------------------
(* A snapshot taken by saveFlowchart while the editing goes on: one
   snapshot is taken and kept by its caller, the graph is edited before and
   after by method calls on its entities and by select-mode gestures.  No
   id is issued twice here (no clear, no load), so a node or edge object is
   known by its id. *)

MaxSnapshotItems == 1

Save == snapshot = Null /\ SaveCall
SnapshotAddNode ==
    /\ AddNodeCall("process", 0, 0)
    /\ Bounded
    /\ nodeCounter' <= MaxSnapshotItems
SnapshotAddEdge ==
    \E i \in 1..Len(nodes), j \in 1..Len(nodes) :
        /\ AddEdgeCall(nodes[i].id, nodes[j].id)
        /\ Bounded
        /\ edgeCounter' <= MaxSnapshotItems
SnapshotDelete == \E item \in LiveItems : DeleteItemCall(item)

NextSnapshot ==
    \/ Save
    \/ SnapshotAddNode
    \/ SnapshotAddEdge
    \/ SnapshotDelete
    \/ Retext
    \/ Relabel
    \/ MouseDown
    \/ MouseMove
    \/ MouseUp

SpecSnapshot == Init /\ [][NextSnapshot]_vars

---------------------------------------------------------------------------
(* The camera under wheel events.  scale, offsetX and offsetY are held as
   exact fractions <<numerator, denominator>> in lowest terms with a
   positive denominator, so that the factors 1.1 and 0.9 and the division
   by the scale are computed without the truncation of the integer pixel
   model above.  The rounding of IEEE doubles is not modelled: what is
   checked of the camera is checked of the exact values the code's
   formulas denote. *)

MaxWheels == 2

RECURSIVE Gcd(_, _)
Gcd(a, b) == IF b = 0 THEN a ELSE Gcd(b, a % b)

Frac(n, d) ==
    LET g == Gcd(Abs(n), Abs(d))
    IN  IF d < 0 THEN <<(0 - n) \div g, (0 - d) \div g>> ELSE <<n \div g, d \div g>>
Whole(n) == <<n, 1>>
FSub(a, b) == Frac(a[1] * b[2] - b[1] * a[2], a[2] * b[2])
FMul(a, b) == Frac(a[1] * b[1], a[2] * b[2])
FDiv(a, b) == Frac(a[1] * b[2], a[2] * b[1])

camera == [scale |-> scale, offsetX |-> offsetX, offsetY |-> offsetY]

(* viewportToCanvas on an exact camera: clientX / scale - offsetX *)
canvasPoint(cam, clientX, clientY) ==
    [x |-> FSub(FDiv(Whole(clientX), cam.scale), cam.offsetX),
     y |-> FSub(FDiv(Whole(clientY), cam.scale), cam.offsetY)]
viewportToCanvasExact(clientX, clientY) == canvasPoint(camera, clientX, clientY)

(* e.deltaY < 0 ? 1.1 : 0.9 *)
wheelDelta(deltaY) == IF deltaY < 0 THEN Frac(11, 10) ELSE Frac(9, 10)

(* this.offsetX = x - (x - this.offsetX) * delta *)
wheelOffset(x, offset, delta) == FSub(x, FMul(FSub(x, offset), delta))

(* the camera handleWheel leaves, from the camera it finds *)
wheeled(cam, clientX, clientY, deltaY) ==
    LET zoomed(p, delta) ==
            [scale |-> FMul(cam.scale, delta),
             offsetX |-> wheelOffset(p.x, cam.offsetX, delta),
             offsetY |-> wheelOffset(p.y, cam.offsetY, delta)]
    IN  zoomed(canvasPoint(cam, clientX, clientY), wheelDelta(deltaY))

handleWheel(clientX, clientY, deltaY) ==
    \E cam \in {wheeled(camera, clientX, clientY, deltaY)} :
        /\ lastOp' = [name |-> "handleWheel", args |-> <<clientX, clientY, deltaY>>]
        /\ scale' = cam.scale
        /\ offsetX' = cam.offsetX
        /\ offsetY' = cam.offsetY
        /\ result' = Undefined
        /\ notified' = <<>>
        /\ thrown' = FALSE
        /\ UNCHANGED <<graphVars, selectedItem, hoveredItem, mode, gestureVars,
                       startX, startY, connectionStartNode, messages, moves,
                       snapshot, localStorage>>

InitCamera ==
    /\ InitFields
    /\ scale = Whole(1)
    /\ offsetX = Whole(0)
    /\ offsetY = Whole(0)

WheelPoints == {[x |-> 0, y |-> 0], [x |-> 100, y |-> 40]}
WheelDeltas == {-100, 100}

(* every wheel event multiplies the denominator of the scale by ten *)
Wheel ==
    \E p \in WheelPoints, deltaY \in WheelDeltas :
        /\ handleWheel(p.x, p.y, deltaY)
        /\ scale'[2] <= 10 ^ MaxWheels

NextCamera ==
    \/ Wheel
    \/ GraphAddNode
    \/ GraphClear
    \/ GraphLoad

SpecCamera == InitCamera /\ [][NextCamera]_vars

---------------------------------------------------------------------------
(* The validation engine on charts of every shape.  The editor holds a
   chart (as after loadFlowchart, before the callback has run) and
   validateFlowchart is called.  The small charts have up to MaxChartNodes
   nodes of every type in every order and up to MaxChartEdges edges in
   every insertion order, self-loops included, all unlabeled or all
   labeled; the decision charts have a start, a decision, a process and an
   end node and up to MaxDecisionEdges edges, each labeled or not.  Every
   edge joins two nodes of the chart and no ordered pair has two edges, as
   addEdge keeps it. *)

MaxChartNodes == 3
MaxChartEdges == 3
MaxDecisionEdges == 4

ChartTypes == {"start", "process", "decision", "end"}
ChartLabels == {"", "yes"}
DecisionChartTypes == <<"start", "decision", "process", "end">>

chartNode(i, t) ==
    [id |-> NodeId(i), nodeType |-> t, x |-> 0, y |-> 0,
     width |-> defaultWidth(t), height |-> defaultHeight(t),
     text |-> capitalize(t)]
chartEdge(i, pair, label) ==
    [id |-> EdgeId(i), sourceId |-> NodeId(pair[1]), targetId |-> NodeId(pair[2]),
     label |-> label]
chartOf(types, pairs, labels) ==
    [nodes |-> [i \in 1..Len(types) |-> chartNode(i, types[i])],
     edges |-> [i \in 1..Len(pairs) |-> chartEdge(i, pairs[i], labels[i])]]

(* the sequences of k different ordered pairs of 1..n *)
PairSeqs(n, k) ==
    {ps \in [1..k -> (1..n) \X (1..n)] :
        \A i \in 1..k, j \in 1..k : i # j => ps[i] # ps[j]}

holdsSmallChart ==
    \E n \in 0..MaxChartNodes, k \in 0..MaxChartEdges :
    \E types \in [1..n -> ChartTypes], pairs \in PairSeqs(n, k),
       label \in ChartLabels :
    \E chart \in {chartOf(types, pairs, [i \in 1..k |-> label])} :
        /\ nodes = chart.nodes
        /\ edges = chart.edges

(* the pairs of a set of pairs, by source and then by target *)
pairRank(pair) == 10 * pair[1] + pair[2]
sortedPairs(set) ==
    [i \in 1..Cardinality(set) |->
        CHOOSE pair \in set :
            Cardinality({q \in set : pairRank(q) < pairRank(pair)}) = i - 1]

DecisionPairs ==
    {pair \in (1..Len(DecisionChartTypes)) \X (1..Len(DecisionChartTypes)) :
        pair[1] # pair[2]}
holdsDecisionChart ==
    \E set \in {es \in SUBSET DecisionPairs : Cardinality(es) <= MaxDecisionEdges} :
    \E labels \in [1..Cardinality(set) -> ChartLabels] :
    \E chart \in {chartOf(DecisionChartTypes, sortedPairs(set), labels)} :
        /\ nodes = chart.nodes
        /\ edges = chart.edges

InitValidate ==
    /\ holdsSmallChart \/ holdsDecisionChart
    /\ nodeCounter = Len(nodes)
    /\ edgeCounter = Len(edges)
    /\ InitEditor
    /\ scale = 1
    /\ offsetX = 0
    /\ offsetY = 0

NextValidate == Validate

SpecValidate == InitValidate /\ [][NextValidate]_vars

---------------------------------------------------------------------------
(* NodeTypes: getConnectionPoint, and drawEdge, which calls it for the two
   ends of an edge.  The points are computed in exact fractions.  With
   dx = targetNode.x - node.x and dy = targetNode.y - node.y and
   angle = atan2(dy, dx): tan(angle) is dy / dx, tan(PI / 2 - angle) is
   dx / dy, cos(angle) is dx / hypot and sin(angle) is dy / hypot, and the
   directions are taken where hypot is a whole number; |angle| < PI / 4 is
   dx > 0 and |dy| < dx, |angle| > 3 PI / 4 is dx < 0 and |dy| < -dx.  For
   dx = 0 the code's |tan(angle)| is above every ratio of sizes.  The
   rounding of doubles is not modelled. *)

FAdd(a, b) == Frac(a[1] * b[2] + b[1] * a[2], a[2] * b[2])
FAbs(a) == <<Abs(a[1]), a[2]>>
FLess(a, b) == a[1] * b[2] < b[1] * a[2]
FLeq(a, b) == a[1] * b[2] <= b[1] * a[2]
sign(positive) == IF positive THEN Whole(1) ELSE Whole(0 - 1)

hypot(dx, dy) ==
    CHOOSE r \in 0..(Abs(dx) + Abs(dy)) : r * r = dx * dx + dy * dy

(* start, end: node.x + (node.width / 2) * cos(angle) *)
ellipseConnectionPoint(node, targetNode) ==
    LET dx == targetNode.x - node.x
        dy == targetNode.y - node.y
    IN  [x |-> FAdd(Whole(node.x), FMul(Frac(node.width, 2), Frac(dx, hypot(dx, dy)))),
         y |-> FAdd(Whole(node.y), FMul(Frac(node.height, 2), Frac(dy, hypot(dx, dy))))]

processConnectionPoint(node, targetNode) ==
    LET halfWidth == Frac(node.width, 2)
        halfHeight == Frac(node.height, 2)
        dx == targetNode.x - node.x
        dy == targetNode.y - node.y
    IN  IF dx = 0 \/ FLess(Frac(node.height, node.width), FAbs(Frac(dy, dx)))
        THEN [x |-> FAdd(Whole(node.x),
                         FMul(FMul(halfHeight, Frac(dx, dy)), sign(dy > 0))),
              y |-> IF dy > 0 THEN FAdd(Whole(node.y), halfHeight)
                    ELSE FSub(Whole(node.y), halfHeight)]
        ELSE [x |-> IF dx > 0 THEN FAdd(Whole(node.x), halfWidth)
                    ELSE FSub(Whole(node.x), halfWidth),
              y |-> FAdd(Whole(node.y),
                         FMul(FMul(halfWidth, Frac(dy, dx)), sign(dx > 0)))]

decisionConnectionPoint(node, targetNode) ==
    LET halfWidth == Frac(node.width, 2)
        halfHeight == Frac(node.height, 2)
        dx == targetNode.x - node.x
        dy == targetNode.y - node.y
    IN  IF dx # 0 /\ FLess(FAbs(Frac(dy, dx)), FDiv(halfHeight, halfWidth))
        THEN [x |-> IF dx > 0 THEN FAdd(Whole(node.x), halfWidth)
                    ELSE FSub(Whole(node.x), halfWidth),
              y |-> FAdd(Whole(node.y),
                         FMul(FMul(sign(dy > 0), halfHeight),
                              FSub(Whole(1), FDiv(Whole(Abs(dx)), halfWidth))))]
        ELSE [x |-> FAdd(Whole(node.x),
                         FMul(FMul(sign(dx > 0), halfWidth),
                              FSub(Whole(1), FDiv(Whole(Abs(dy)), halfHeight)))),
              y |-> IF dy > 0 THEN FAdd(Whole(node.y), halfHeight)
                    ELSE FSub(Whole(node.y), halfHeight)]

inputConnectionPoint(node, targetNode) ==
    LET halfWidth == Frac(node.width, 2)
        halfHeight == Frac(node.height, 2)
        offset == Frac(node.width, 4)
        dx == targetNode.x - node.x
        dy == targetNode.y - node.y
    IN  IF Abs(dy) < Abs(dx)
        THEN LET isRight == dx > 0
                 relY == FMul(Frac(dy, dx), halfWidth)
             IN  [x |-> IF isRight
                        THEN FSub(FAdd(Whole(node.x), halfWidth), offset)
                        ELSE FSub(FSub(Whole(node.x), halfWidth), offset),
                  y |-> IF isRight THEN FAdd(Whole(node.y), relY)
                        ELSE FSub(Whole(node.y), relY)]
        ELSE LET isBottom == dy > 0
                 relX == FDiv(halfHeight, Frac(dy, dx))
             IN  [x |-> FAdd(Whole(node.x), relX),
                  y |-> IF isBottom THEN FAdd(Whole(node.y), halfHeight)
                        ELSE FSub(Whole(node.y), halfHeight)]

getConnectionPoint(node, targetNode) ==
    CASE node.nodeType \in {"start", "end"} -> ellipseConnectionPoint(node, targetNode)
      [] node.nodeType = "process" -> processConnectionPoint(node, targetNode)
      [] node.nodeType = "decision" -> decisionConnectionPoint(node, targetNode)
      [] node.nodeType = "input" -> inputConnectionPoint(node, targetNode)

(* drawEdge(edge): the two ends of the line it strokes *)
drawEdge(edge) ==
    /\ lastOp' = [name |-> "drawEdge", args |-> <<edge.id>>]
    /\ result' =
           IF ~hasNode(nodes, edge.sourceId) \/ ~hasNode(nodes, edge.targetId)
           THEN Undefined
           ELSE [source |-> getConnectionPoint(findNode(nodes, edge.sourceId),
                                               findNode(nodes, edge.targetId)),
                 target |-> getConnectionPoint(findNode(nodes, edge.targetId),
                                               findNode(nodes, edge.sourceId))]
    /\ notified' = <<>>
    /\ thrown' = FALSE
    /\ UNCHANGED <<graphVars, selectedItem, messages, uiVars>>

(* a node of every type and of several sizes, joined to a process node in
   one of the directions *)
ConnectSizes == {<<120, 80>>, <<100, 50>>, <<60, 120>>}
ConnectDirections ==
    {<<200, 0>>, <<0 - 200, 0>>, <<0, 200>>, <<0, 0 - 200>>,
     <<120, 160>>, <<160, 120>>, <<0 - 120, 160>>, <<160, 0 - 120>>,
     <<0 - 160, 0 - 120>>, <<0 - 120, 0 - 160>>, <<30, 40>>, <<400, 300>>}

InitConnect ==
    /\ \E t \in NodeTypeNames, size \in ConnectSizes, d \in ConnectDirections :
           nodes = <<[id |-> NodeId(1), nodeType |-> t, x |-> 40, y |-> 20,
                      width |-> size[1], height |-> size[2], text |-> capitalize(t)],
                     [id |-> NodeId(2), nodeType |-> "process",
                      x |-> 40 + d[1], y |-> 20 + d[2],
                      width |-> defaultWidth("process"),
                      height |-> defaultHeight("process"),
                      text |-> capitalize("process")]>>
    /\ edges = <<[id |-> EdgeId(1), sourceId |-> NodeId(1), targetId |-> NodeId(2),
                  label |-> ""]>>
    /\ nodeCounter = 2
    /\ edgeCounter = 1
    /\ InitEditor
    /\ scale = 1
    /\ offsetX = 0
    /\ offsetY = 0

(* render: every edge is drawn *)
NextConnect == \E i \in 1..Len(edges) : drawEdge(edges[i])

SpecConnect == InitConnect /\ [][NextConnect]_vars

---------------------------------------------------------------------------
(* getItemAtPosition as a call of its own: a process node, a decision node
   that covers the south-east corner of the first, an edge between them,
   any selection, and points around the corners of the first node. *)

HitXs == {28, 32, 36, 40, 44, 100, 152, 156, 160, 163, 164, 168, 400}
HitYs == {66, 70, 74, 100, 122, 126, 130, 133, 134, 400}

InitHit ==
    /\ nodes = <<[id |-> NodeId(1), nodeType |-> "process", x |-> 100, y |-> 100,
                  width |-> defaultWidth("process"),
                  height |-> defaultHeight("process"),
                  text |-> capitalize("process")],
                 [id |-> NodeId(2), nodeType |-> "decision", x |-> 200, y |-> 140,
                  width |-> defaultWidth("decision"),
                  height |-> defaultHeight("decision"),
                  text |-> capitalize("decision")]>>
    /\ edges = <<[id |-> EdgeId(1), sourceId |-> NodeId(1), targetId |-> NodeId(2),
                  label |-> ""]>>
    /\ nodeCounter = 2
    /\ edgeCounter = 1
    /\ InitEditor
    /\ scale = 1
    /\ offsetX = 0
    /\ offsetY = 0

HitSelect == \E item \in LiveItems \cup {Null} : SelectItemCall(item)
HitTest ==
    \E x \in HitXs, y \in HitYs, near \in NearChoices :
        /\ lastOp' = [name |-> "getItemAtPosition", args |-> <<x, y, near>>]
        /\ result' = getItemAtPosition(x, y, near)
        /\ notified' = <<>>
        /\ thrown' = FALSE
        /\ UNCHANGED <<graphVars, selectedItem, messages, uiVars>>

NextHit == HitSelect \/ HitTest

SpecHit == InitHit /\ [][NextHit]_vars

---------------------------------------------------------------------------
(* StorageManager as the save and load dialogs call it: any name, one of
   two flowcharts, and any outcome of each write to localStorage. *)

editorVars == <<graphVars, selectedItem, messages, hoveredItem, mode, cameraVars,
                gestureVars, startX, startY, connectionStartNode, moves, snapshot>>

StorageCharts ==
    {[nodes |-> <<>>, edges |-> <<>>, nodeCounter |-> 0, edgeCounter |-> 0],
     StoredChart}

StorageSave ==
    \E name \in FlowchartNames, data \in StorageCharts,
       listWrite \in WriteOutcomes, dataWrite \in WriteOutcomes :
    \E r \in {StorageManager_saveFlowchart(localStorage, name, data,
                                            listWrite, dataWrite)} :
        /\ lastOp' = [name |-> "StorageManager.saveFlowchart", args |-> <<name, data>>,
                      writes |-> <<listWrite, dataWrite>>]
        /\ localStorage' = r.storage
        /\ result' = r.value
        /\ thrown' = r.thrown
        /\ notified' = <<>>
        /\ UNCHANGED editorVars

StorageLoad ==
    \E name \in FlowchartNames :
    \E r \in {StorageManager_loadFlowchart(localStorage, name)} :
        /\ lastOp' = [name |-> "StorageManager.loadFlowchart", args |-> <<name>>,
                      writes |-> <<>>]
        /\ localStorage' = r.storage
        /\ result' = r.value
        /\ thrown' = r.thrown
        /\ notified' = <<>>
        /\ UNCHANGED editorVars

StorageDelete ==
    \E name \in FlowchartNames, listWrite \in WriteOutcomes :
    \E r \in {StorageManager_deleteFlowchart(localStorage, name, listWrite)} :
        /\ lastOp' = [name |-> "StorageManager.deleteFlowchart", args |-> <<name>>,
                      writes |-> <<listWrite>>]
        /\ localStorage' = r.storage
        /\ result' = r.value
        /\ thrown' = r.thrown
        /\ notified' = <<>>
        /\ UNCHANGED editorVars

StorageList ==
    /\ lastOp' = [name |-> "StorageManager.getFlowchartList", args |-> <<>>,
                  writes |-> <<>>]
    /\ result' = getFlowchartList(localStorage)
    /\ thrown' = FALSE
    /\ notified' = <<>>
    /\ UNCHANGED <<editorVars, localStorage>>

NextStorage == StorageSave \/ StorageLoad \/ StorageDelete \/ StorageList

SpecStorage == Init /\ [][NextStorage]_vars

---------------------------------------------------------------------------
(* The graph methods called with any id, live or not: two nodes and an edge
   are there, items are selected and deleted, and the property panel or a
   late caller passes an id that may have been deleted in between. *)

StaleRetext ==
    \E nodeId \in NodeIds, text \in Texts : UpdateNodeTextCall(nodeId, text)
StaleRelabel ==
    \E edgeId \in EdgeIds, label \in Labels : UpdateEdgeLabelCall(edgeId, label)

NextStale == GraphDelete \/ HitSelect \/ StaleRetext \/ StaleRelabel

SpecStale == InitHit /\ [][NextStale]_vars

---------------------------------------------------------------------------
(* The mouse on a chart of up to three nodes: the three palette nodes are
   dropped, the mode is switched, and the pointer goes down, moves and is
   released at the places of the three nodes, which are empty space once
   the node is deleted.  No move displaces a node or the camera. *)

MaxPointerNodes == 3
MaxPointerMoves == 0

PointerPoints == {[x |-> Palette[k].x, y |-> Palette[k].y] : k \in 1..Len(Palette)}

PointerBounded ==
    /\ nodeCounter' <= MaxPointerNodes
    /\ edgeCounter' <= MaxEdgeId
    /\ moves' <= MaxPointerMoves

PointerDrop == \E d \in DropInputs : OnDrop(d.nodeType, d.x, d.y) /\ PointerBounded
PointerDown ==
    \E p \in PointerPoints, near \in NearChoices :
        handleMouseDown(p.x, p.y, near) /\ PointerBounded
PointerMove ==
    \E p \in PointerPoints, near \in NearChoices :
        handleMouseMove(p.x, p.y, near) /\ PointerBounded
PointerUp == handleMouseUp /\ PointerBounded

NextPointer == PointerDrop \/ SetMode \/ PointerDown \/ PointerMove \/ PointerUp

SpecPointer == Init /\ [][NextPointer]_vars

---------------------------------------------------------------------------
(* Select-mode gestures on a chart of two connected nodes: pointer-down,
   any number of pointer-moves up to the bound, pointer-up.  The camera is
   the initial one (scale 1, no offset). *)

MaxGestureMoves == 2

(* inside node_1 twice, the centre of node_2, empty canvas twice *)
GesturePoints ==
    {[x |-> 100, y |-> 100], [x |-> 130, y |-> 110], [x |-> 200, y |-> 140],
     [x |-> 300, y |-> 300], [x |-> 330, y |-> 290]}

GestureBounded ==
    /\ moves' <= MaxGestureMoves
    /\ \A i \in 1..Len(nodes') :
           nodes'[i].width <= MaxSize /\ nodes'[i].height <= MaxSize

GestureDown ==
    \E p \in GesturePoints, near \in NearChoices :
        handleMouseDown(p.x, p.y, near) /\ GestureBounded
GestureMove ==
    \E p \in GesturePoints, near \in NearChoices :
        handleMouseMove(p.x, p.y, near) /\ GestureBounded
GestureUp == handleMouseUp /\ GestureBounded

NextGesture == GestureDown \/ GestureMove \/ GestureUp

SpecGesture == InitHit /\ [][NextGesture]_vars

---------------------------------------------------------------------------
(* Panning on an exact camera: scale, offsetX, offsetY, startX and startY
   hold fractions, so that pointer positions divided by a scale of 1.1 or
   0.9 are the numbers the handlers compute with.  The chart is one process
   node; a pan starts with a pointer-down on empty canvas in select mode. *)

MaxPanMoves == 2
MaxPanWheels == 1

(* client positions: (330, 330) is the canvas point (300, 300) at scale 1.1 *)
PanPoints ==
    {[x |-> 0, y |-> 0], [x |-> 110, y |-> 44],
     [x |-> 300, y |-> 300], [x |-> 330, y |-> 330]}

(* the pan step with the canvas-space delta scaled once more *)
pannedByPixels(cam, start, p) ==
    LET dx == FSub(p.x, start.x)
        dy == FSub(p.y, start.y)
    IN  [offsetX |-> FAdd(cam.offsetX, FMul(dx, cam.scale)),
         offsetY |-> FAdd(cam.offsetY, FMul(dy, cam.scale)),
         startX |-> FSub(p.x, dx),
         startY |-> FSub(p.y, dy)]

(* dx = x - this.startX; this.offsetX += dx; this.startX = x - dx *)
panned(cam, start, p) ==
    LET dx == FSub(p.x, start.x)
        dy == FSub(p.y, start.y)
    IN  [offsetX |-> FAdd(cam.offsetX, dx),
         offsetY |-> FAdd(cam.offsetY, dy),
         startX |-> FSub(p.x, dx),
         startY |-> FSub(p.y, dy)]

(* handleMouseDown in select mode at a point with whole canvas coordinates
   where getItemAtPosition finds no item: selectItem(null), isPanning = true *)
panMouseDown(clientX, clientY, near) ==
    \E p \in {canvasPoint(camera, clientX, clientY)} :
        /\ mode = "select"
        /\ p.x[2] = 1 /\ p.y[2] = 1
        /\ getItemAtPosition(p.x[1], p.y[1], near) = Null
        /\ lastOp' = [name |-> "handleMouseDown", args |-> <<clientX, clientY>>]
        /\ startX' = p.x
        /\ startY' = p.y
        /\ selectedItem' = Null
        /\ isPanning' = TRUE
        /\ result' = Undefined
        /\ notified' = <<>>
        /\ thrown' = FALSE
        /\ UNCHANGED <<graphVars, cameraVars, hoveredItem, mode, isDragging,
                       isResizing, resizeDirection, connectionStartNode,
                       messages, moves, snapshot, localStorage>>

(* handleMouseMove while panning with nothing selected *)
panMouseMove(clientX, clientY) ==
    /\ isPanning
    /\ ~(isDragging /\ selectedItem.type = "node")
    /\ ~(isResizing /\ selectedItem.type = "node")
    /\ \E p \in {canvasPoint(camera, clientX, clientY)} :
       \E pan \in {panned(camera, [x |-> startX, y |-> startY], p)} :
        /\ lastOp' = [name |-> "handleMouseMove", args |-> <<clientX, clientY>>]
        /\ offsetX' = pan.offsetX
        /\ offsetY' = pan.offsetY
        /\ startX' = pan.startX
        /\ startY' = pan.startY
        /\ moves' = moves + (IF p.x # startX \/ p.y # startY THEN 1 ELSE 0)
        /\ result' = Undefined
        /\ notified' = <<>>
        /\ thrown' = FALSE
        /\ UNCHANGED <<graphVars, scale, selectedItem, hoveredItem, mode,
                       gestureVars, connectionStartNode, messages, snapshot,
                       localStorage>>

InitPan ==
    /\ nodes = <<[id |-> NodeId(1), nodeType |-> "process", x |-> 100, y |-> 100,
                  width |-> defaultWidth("process"),
                  height |-> defaultHeight("process"),
                  text |-> capitalize("process")]>>
    /\ edges = <<>>
    /\ nodeCounter = 1
    /\ edgeCounter = 0
    /\ InitEditor
    /\ scale = Whole(1)
    /\ offsetX = Whole(0)
    /\ offsetY = Whole(0)

PanDown ==
    \E c \in PanPoints, near \in NearChoices : panMouseDown(c.x, c.y, near)
PanMove ==
    \E c \in PanPoints : panMouseMove(c.x, c.y) /\ moves' <= MaxPanMoves
PanUp == handleMouseUp
PanWheel ==
    \E p \in WheelPoints, deltaY \in WheelDeltas :
        /\ handleWheel(p.x, p.y, deltaY)
        /\ scale'[2] <= 10 ^ MaxPanWheels

NextPan == PanDown \/ PanMove \/ PanUp \/ PanWheel

SpecPan == InitPan /\ [][NextPan]_vars

---------------------------------------------------------------------------
(* Properties *)

Range(seq) == {seq[i] : i \in 1..Len(seq)}
idNumber(id) == id[2]

(* C1: in every state the editor reaches by drops, mode changes and
   pointer events, the sourceId and the targetId of every edge are ids of
   nodes of the node list. *)
C1_EdgesReferToLiveNodes ==
    \A i \in 1..Len(edges) :
        hasNode(nodes, edges[i].sourceId) /\ hasNode(nodes, edges[i].targetId)

(* C2: deleteItem of a node item removes the node of that id and the edges
   whose source or target is that id, and keeps every other node and edge
   as it was and in the order it had. *)
C2_DeleteNodeCascades ==
    [][(lastOp'.name = "deleteItem" /\ lastOp'.args[1].type = "node") =>
          LET id == lastOp'.args[1].id
              otherNode(n) == n.id # id
              untouched(e) == e.sourceId # id /\ e.targetId # id
          IN  /\ ~hasNode(nodes', id)
              /\ \A e \in Range(edges') : e.sourceId # id /\ e.targetId # id
              /\ nodes' = SelectSeq(nodes, otherNode)
              /\ edges' = SelectSeq(edges, untouched)
              /\ nodeCounter' = nodeCounter
              /\ edgeCounter' = edgeCounter]_vars

C2_Witness ==
    /\ lastOp.name = "deleteItem"
    /\ lastOp.args[1].type = "node"
    /\ nodeCounter = 2
    /\ edgeCounter = 2
    /\ Len(nodes) = 1
    /\ Len(edges) = 1
    /\ nodes[1].id # lastOp.args[1].id
    /\ edges[1].id = EdgeId(1)

(* C3: no two edges have the same source and the same target; addEdge(a, b)
   while an edge from a to b exists returns null and changes neither the
   edge list, nor the edge counter, nor the validation messages, and
   notifies nobody; otherwise, an edge from b to a or not, it appends the
   edge from a to b. *)
C3_OneEdgePerOrderedPair ==
    /\ [](\A i, j \in 1..Len(edges) :
             (edges[i].sourceId = edges[j].sourceId
              /\ edges[i].targetId = edges[j].targetId) => i = j)
    /\ [][lastOp'.name = "addEdge" =>
             LET a == lastOp'.args[1]
                 b == lastOp'.args[2]
                 edge == [id |-> EdgeId(edgeCounter + 1), sourceId |-> a,
                          targetId |-> b, label |-> ""]
             IN  IF \E e \in Range(edges) : e.sourceId = a /\ e.targetId = b
                 THEN /\ result' = Null
                      /\ edges' = edges
                      /\ edgeCounter' = edgeCounter
                      /\ messages' = messages
                      /\ notified' = <<>>
                      /\ thrown' = FALSE
                 ELSE /\ edges' = Append(edges, edge)
                      /\ edgeCounter' = edgeCounter + 1
                      /\ thrown' \/ result' = edge]_vars

C3_Witness ==
    /\ lastOp.name = "addEdge"
    /\ lastOp.args[1] # lastOp.args[2]
    /\ result = Null
    /\ Len(edges) = 2
    /\ edges[1].sourceId = lastOp.args[1]
    /\ edges[1].targetId = lastOp.args[2]
    /\ edges[2].sourceId = lastOp.args[2]
    /\ edges[2].targetId = lastOp.args[1]

(* C4, as stated: addEdge with sourceId equal to targetId returns null and
   adds no edge. *)
C4_SelfLoopRefused ==
    [][(lastOp'.name = "addEdge" /\ lastOp'.args[1] = lastOp'.args[2]) =>
          (result' = Null /\ edges' = edges)]_vars

(* C4, amended: addEdge with sourceId equal to targetId returns null and
   adds no edge only when that self-loop exists already; otherwise it
   appends the self-loop and returns it. *)
C4_SelfLoopAccepted ==
    [][(lastOp'.name = "addEdge" /\ lastOp'.args[1] = lastOp'.args[2]) =>
          LET a == lastOp'.args[1]
              loop == [id |-> EdgeId(edgeCounter + 1), sourceId |-> a,
                       targetId |-> a, label |-> ""]
          IN  IF \E e \in Range(edges) : e.sourceId = a /\ e.targetId = a
              THEN result' = Null /\ edges' = edges
              ELSE /\ edges' = Append(edges, loop)
                   /\ thrown' \/ result' = loop]_vars

C4_Witness ==
    /\ lastOp.name = "addEdge"
    /\ lastOp.args[1] = lastOp.args[2]
    /\ result \in Range(edges)
    /\ result.sourceId = result.targetId
    /\ hasNode(nodes, result.sourceId)

(* C5: a step of addNode, addEdge, deleteItem or loadFlowchart(saveFlowchart())
   from a state whose node ids, and whose edge ids, are distinct and numbered
   up to the counter leads to such a state, lowers no counter, and numbers
   each entity that was not there before above the counter it found. *)
idsDistinct(seq) == \A i, j \in 1..Len(seq) : seq[i].id = seq[j].id => i = j
idsIssued(seq, counter) == \A e \in Range(seq) : idNumber(e.id) \in 1..counter
idsInOrder ==
    /\ idsDistinct(nodes)
    /\ idsDistinct(edges)
    /\ idsIssued(nodes, nodeCounter)
    /\ idsIssued(edges, edgeCounter)
fresh(before, after, counter) ==
    \A e \in Range(after) :
        (\E o \in Range(before) : o.id = e.id) \/ idNumber(e.id) > counter
C5_IdsNeverReissued ==
    [][((\/ lastOp'.name \in {"addNode", "addEdge", "deleteItem"}
         \/ (lastOp'.name = "loadFlowchart" /\ lastOp'.args[1] = "saved"))
        /\ idsInOrder) =>
          /\ idsInOrder'
          /\ nodeCounter' >= nodeCounter
          /\ edgeCounter' >= edgeCounter
          /\ fresh(nodes, nodes', nodeCounter)
          /\ fresh(edges, edges', edgeCounter)]_vars

C5_Witness ==
    /\ lastOp.name = "addNode"
    /\ Len(nodes) = 1
    /\ result = nodes[1]
    /\ nodes[1].id = NodeId(2)
    /\ nodeCounter = 2

(* twice the coordinates of a corner of the bounding box of a node *)
corner2(node, pos) ==
    [x |-> IF pos \in {"nw", "sw"} THEN 2 * node.x - node.width
                                   ELSE 2 * node.x + node.width,
     y |-> IF pos \in {"nw", "ne"} THEN 2 * node.y - node.height
                                   ELSE 2 * node.y + node.height]
opposite(pos) ==
    CASE pos = "nw" -> "se"
      [] pos = "ne" -> "sw"
      [] pos = "se" -> "nw"
      [] pos = "sw" -> "ne"
(* the pointer move about to come resizes the selected node *)
resizing ==
    /\ ~isDragging
    /\ isResizing
    /\ resizeDirection \in Handles
    /\ selectedItem.type = "node"
    /\ hasNode(nodes, selectedItem.id)

(* C6: a pointer move that resizes the selected node leaves the corner
   opposite the dragged handle where it was. *)
C6_AnchorCornerFixed ==
    [][(lastOp'.name = "handleMouseMove" /\ resizing) =>
          corner2(findNode(nodes', selectedItem.id), opposite(resizeDirection))
              = corner2(findNode(nodes, selectedItem.id), opposite(resizeDirection))]_vars

(* C7: every node is at least 50 wide and 30 high. *)
C7_MinimumSize ==
    \A i \in 1..Len(nodes) : nodes[i].width >= 50 /\ nodes[i].height >= 30

C7_Witness ==
    /\ lastOp.name = "handleMouseMove"
    /\ isResizing
    /\ \E i \in 1..Len(nodes) :
           /\ nodes[i].width = 50
           /\ nodes[i].height = 30
           /\ selectedItem.type = "node"
           /\ selectedItem.id = nodes[i].id

(* C8: after a pointer-up or a touch-end, isDragging, isResizing and
   isPanning are false and resizeDirection is null; and no pointer or touch
   event changes the mode. *)
C8_ReleaseEndsGesture ==
    /\ [](lastOp.name = "handleMouseUp" =>
             /\ ~isDragging
             /\ ~isResizing
             /\ ~isPanning
             /\ resizeDirection = "null")
    /\ [][lastOp'.name \in {"handleMouseDown", "handleMouseMove", "handleMouseUp"}
             => mode' = mode]_vars

(* C9, as stated: after setMode nothing is selected and no connection is
   pending. *)
C9_SetModeClearsPending ==
    lastOp.name = "setMode" =>
        (selectedItem = Null /\ connectionStartNode = NullId)

(* C9, amended: after setMode(m) nothing is selected; a pending connection
   is cleared when m is select or delete and kept when m is connect. *)
C9_SetModeKeepsPendingInConnect ==
    [][lastOp'.name = "setMode" =>
          /\ selectedItem' = Null
          /\ mode' \in {"select", "delete"} => connectionStartNode' = NullId
          /\ mode' = "connect" => connectionStartNode' = connectionStartNode]_vars

C9_Witness ==
    /\ lastOp.name = "setMode"
    /\ mode = "connect"
    /\ connectionStartNode # NullId
    /\ hasNode(nodes, connectionStartNode)

(* C10: the selection is null, or an item of type node with the id of a
   node of the list, or an item of type edge with the id of an edge of the
   list; deleteItem of an item, clear and a loadFlowchart that accepts its
   data leave it null (a rejected load leaves the graph and the selection
   as they were). *)
C10_SelectionIsLive ==
    /\ [](\/ selectedItem = Null
          \/ selectedItem.type = "node" /\ hasNode(nodes, selectedItem.id)
          \/ selectedItem.type = "edge" /\ hasEdge(edges, selectedItem.id))
    /\ [][(\/ lastOp'.name = "deleteItem" /\ lastOp'.args[1] # Null
           \/ lastOp'.name = "clear"
           \/ lastOp'.name = "loadFlowchart" /\ ~malformed(lastOp'.args[2]))
          => selectedItem' = Null]_vars

C10_Witness ==
    /\ lastOp.name = "deleteItem"
    /\ lastOp.args[1].type = "node"
    /\ selectedItem = Null
    /\ nodeCounter = 2
    /\ Len(nodes) = 1
    /\ nodes[1].id # lastOp.args[1].id


(* C11: a wheel event at the device position p leaves the canvas-space
   point that viewportToCanvas maps p to where it was, for every camera
   and both zoom directions. *)
C11_WheelKeepsPointerPoint ==
    [][\A p \in WheelPoints :
          (lastOp'.name = "handleWheel" /\ lastOp'.args[1] = p.x
                                       /\ lastOp'.args[2] = p.y) =>
              viewportToCanvasExact(p.x, p.y)' = viewportToCanvasExact(p.x, p.y)]_vars

(* C12: a wheel zoom-in followed by a wheel zoom-out at the same pointer
   position restores scale, offsetX and offsetY: from every camera the
   editor reaches and at every pointer position, the two events in a row
   lead back to that camera. *)
C12_ZoomInThenOutRestores ==
    \A p \in WheelPoints :
        wheeled(wheeled(camera, p.x, p.y, -100), p.x, p.y, 100) = camera

(* C13: when clear() or a loadFlowchart(data) that did not fail has
   returned, the camera is the identity: scale 1, offsetX 0, offsetY 0,
   whatever zooming came before. *)
identityCamera == [scale |-> Whole(1), offsetX |-> Whole(0), offsetY |-> Whole(0)]
C13_ClearAndLoadResetCamera ==
    [][(lastOp'.name \in {"clear", "loadFlowchart"} /\ ~thrown') =>
          camera' = identityCamera]_vars

(* C14: loadFlowchart called with data that is null or lacks the nodes or
   the edges collection fails with an error, leaves nodes, edges,
   nodeCounter, edgeCounter, the selection and the validation messages as
   they were before the call, and notifies nobody. *)
C14_MalformedLoadRejected ==
    [][(lastOp'.name = "loadFlowchart" /\ malformed(lastOp'.args[2])) =>
          /\ thrown'
          /\ UNCHANGED <<nodes, edges, nodeCounter, edgeCounter>>
          /\ selectedItem' = selectedItem
          /\ messages' = messages
          /\ notified' = <<>>]_vars
C14_Witness ==
    /\ lastOp.name = "loadFlowchart"
    /\ malformed(lastOp.args[2])
    /\ lastOp.args[2] # Null
    /\ thrown
    /\ Len(nodes) = 2
    /\ Len(edges) > 0
    /\ selectedItem # Null
    /\ messages # <<>>

(* C15: the snapshot saveFlowchart() returned does not alias the live
   state: no later drag, resize, text or label update, addNode, addEdge or
   deleteItem changes the nodes and edges the snapshot holds. *)
C15_SnapshotNotAliased ==
    [][(snapshot # Null /\ lastOp'.name # "saveFlowchart") =>
          (snapshot'.nodes = snapshot.nodes /\ snapshot'.edges = snapshot.edges)]_vars

(* C16: each call of addNode, addEdge, updateNodeText, updateEdgeLabel,
   deleteItem, clear or loadFlowchart that changes the node list or the
   edge list invokes the graph-changed callback exactly once, and the
   callback sees the two lists as the call leaves them. *)
GraphMethods ==
    {"addNode", "addEdge", "updateNodeText", "updateEdgeLabel", "deleteItem",
     "clear", "loadFlowchart"}
C16_OneNotificationPerChange ==
    [][(lastOp'.name \in GraphMethods /\ <<nodes', edges'>> # <<nodes, edges>>) =>
          notified' = <<[nodes |-> nodes', edges |-> edges']>>]_vars
C16_Witness ==
    /\ lastOp.name = "deleteItem"
    /\ lastOp.args[1].type = "node"
    /\ ~hasNode(nodes, lastOp.args[1].id)
    /\ Len(nodes) = 1
    /\ nodeCounter = 2
    /\ Len(edges) = 1
    /\ edgeCounter = 2
    /\ Len(notified) = 1
    /\ notified[1] = [nodes |-> nodes, edges |-> edges]

(* C17: whenever an operation that changed the node list or the edge list
   has returned, the validation messages are those of a validation of the
   current lists from scratch; and a validation writes the messages only:
   it leaves nodes, edges, the counters, the selection, the mode and the
   camera alone. *)
C17_MessagesAreCurrent ==
    [][/\ (<<nodes', edges'>> # <<nodes, edges>> /\ ~thrown') =>
              messages' = validateFlowchart(nodes', edges').messages
       /\ lastOp'.name = "validateFlowchart" =>
              /\ messages' = validateFlowchart(nodes, edges).messages
              /\ UNCHANGED <<nodes, edges, nodeCounter, edgeCounter,
                             selectedItem, mode, cameraVars>>]_vars
C17_Witness ==
    /\ lastOp.name = "updateNodeText"
    /\ ~thrown
    /\ selectedItem # Null
    /\ Len(nodes) = 2
    /\ Len(edges) = 1
    /\ Len(messages) > 2
    /\ \E i \in 1..Len(nodes) :
           nodes[i].id = lastOp.args[1] /\ nodes[i].text = lastOp.args[2]

(* C18: validating the empty graph yields exactly two messages, the
   missing start node and the missing end node. *)
C18_EmptyGraphTwoMessages ==
    (lastOp.name = "validateFlowchart" /\ nodes = <<>> /\ edges = <<>>) =>
        (Len(messages) = 2 /\ Range(messages) = {NoStartMsg, NoEndMsg})

(* the pairs <<a, b>> of ids with a directed path of one edge or more from
   a to b *)
edgePairs(es) == {<<es[i].sourceId, es[i].targetId>> : i \in 1..Len(es)}
RECURSIVE pathPairs(_, _)
pathPairs(R, k) ==
    IF k = 0 THEN R
    ELSE pathPairs(R \cup {<<p[1][1], p[2][2]>> :
                               p \in {q \in R \X R : q[1][2] = q[2][1]}}, k - 1)
paths(ns, es) == pathPairs(edgePairs(es), Len(ns))
hasDirectedCycle(ns, es) == \E p \in paths(ns, es) : p[1] = p[2]

outgoing(es, id) == {i \in 1..Len(es) : es[i].sourceId = id}
incoming(es, id) == {i \in 1..Len(es) : es[i].targetId = id}

wellFormedChart(ns, es) ==
    /\ countType(ns, "start") = 1
    /\ countType(ns, "end") >= 1
    /\ \A i \in 1..Len(ns) :
           /\ ns[i].nodeType # "start" => incoming(es, ns[i].id) # {}
           /\ ns[i].nodeType # "end" => outgoing(es, ns[i].id) # {}
           /\ ns[i].nodeType = "decision" =>
                  /\ Cardinality(outgoing(es, ns[i].id)) >= 2
                  /\ \A e \in outgoing(es, ns[i].id) : es[e].label # ""
    /\ ~hasDirectedCycle(ns, es)

(* C19: for every graph with at least one node, validation yields no
   message if and only if the graph has exactly one start node, at least
   one end node, an incoming edge at every node that is not a start node, an
   outgoing edge at every node that is not an end node, no directed cycle,
   and at every decision node two or more outgoing edges, all labeled.  In
   particular a start node, an end node and the edge between them yield no
   message. *)
C19_NoMessageIffWellFormed ==
    (lastOp.name = "validateFlowchart" /\ Len(nodes) >= 1) =>
        ((messages = <<>>) <=> wellFormedChart(nodes, edges))
C19_Witness ==
    /\ lastOp.name = "validateFlowchart"
    /\ Len(nodes) = 2
    /\ nodes[1].nodeType = "start"
    /\ nodes[2].nodeType = "end"
    /\ Len(edges) = 1
    /\ edges[1].sourceId = nodes[1].id
    /\ edges[1].targetId = nodes[2].id
    /\ messages = <<>>

(* the nodes on a directed cycle, and the nodes that share a cycle with
   a node *)
onCycle(ns, es) ==
    {ns[i].id : i \in {j \in 1..Len(ns) : <<ns[j].id, ns[j].id>> \in paths(ns, es)}}
cycleMates(ns, es, id) ==
    {w \in onCycle(ns, es) :
        <<id, w>> \in paths(ns, es) /\ <<w, id>> \in paths(ns, es)}
(* no two directed cycles share a node: every node on a cycle has one edge
   only to the nodes it shares a cycle with *)
cyclesDisjoint(ns, es) ==
    \A id \in onCycle(ns, es) :
        Cardinality({i \in outgoing(es, id) :
                        es[i].targetId \in cycleMates(ns, es, id)}) = 1
cycleCount(ns, es) == Cardinality({cycleMates(ns, es, id) : id \in onCycle(ns, es)})
cycleMessageCount(msgs) ==
    Cardinality({i \in 1..Len(msgs) :
                    msgs[i].kind \in {"Cycle detected:",
                                      "Cycle detected in the flowchart."}})

(* C20: for every graph whose directed cycles are pairwise node-disjoint,
   validation emits exactly one cycle message per cycle, whatever the
   order of the nodes, the order of the edges and the position of the
   start nodes. *)
C20_OneMessagePerCycle ==
    (lastOp.name = "validateFlowchart" /\ cyclesDisjoint(nodes, edges)) =>
        cycleMessageCount(messages) = cycleCount(nodes, edges)

(* the graph is one simple directed cycle and nothing else: every edge
   joins nodes of the one cycle and there are as many edges as nodes on
   it (other nodes have no edge at all) *)
oneSimpleCycleOnly(ns, es) ==
    /\ cycleCount(ns, es) = 1
    /\ Len(es) = Cardinality(onCycle(ns, es))
    /\ \A i \in 1..Len(es) :
           es[i].sourceId \in onCycle(ns, es) /\ es[i].targetId \in onCycle(ns, es)
(* the texts met on the walk of k edges from id, the first node included *)
walkTexts(ns, es, id, k) ==
    LET at[i \in 1..(k + 1)] ==
            IF i = 1 THEN id
            ELSE es[CHOOSE e \in outgoing(es, at[i - 1]) : TRUE].targetId
    IN  [i \in 1..(k + 1) |-> textOf(ns, at[i])]
cycleMessages(msgs) ==
    SelectSeq(msgs, LAMBDA m : m.kind \in {"Cycle detected:",
                                           "Cycle detected in the flowchart."})

(* C21: validation emits no cycle message for an acyclic graph and at
   least one for a graph with a directed cycle, self-loops included; for a
   graph that is one simple cycle and has no other edge it emits exactly
   one cycle message, which lists the nodes of the cycle in their order,
   closed by the first one. *)
C21_CycleMessages ==
    lastOp.name = "validateFlowchart" =>
        /\ ~hasDirectedCycle(nodes, edges) => cycleMessageCount(messages) = 0
        /\ hasDirectedCycle(nodes, edges) => cycleMessageCount(messages) >= 1
        /\ oneSimpleCycleOnly(nodes, edges) =>
               /\ cycleMessageCount(messages) = 1
               /\ cycleMessages(messages)[1].kind = "Cycle detected:"
               /\ \E id \in onCycle(nodes, edges) :
                      cycleMessages(messages)[1].names =
                          walkTexts(nodes, edges, id,
                                    Cardinality(onCycle(nodes, edges)))
C21_Witness ==
    /\ lastOp.name = "validateFlowchart"
    /\ Len(nodes) = 3
    /\ Len(edges) = 3
    /\ oneSimpleCycleOnly(nodes, edges)
    /\ Cardinality(onCycle(nodes, edges)) = 3
    /\ cycleMessageCount(messages) = 1
    /\ Len(cycleMessages(messages)[1].names) = 4

(* what the claim asks of one node: k outgoing edges, u of them with an
   empty label *)
unlabeledOutgoing(es, id) == {i \in outgoing(es, id) : es[i].label = ""}
decisionVerdict(node, es) ==
    IF node.nodeType # "decision" THEN <<>>
    ELSE IF Cardinality(outgoing(es, node.id)) < 2
    THEN <<Msg("should have at least 2 outgoing paths", <<node.text>>, 0)>>
    ELSE IF unlabeledOutgoing(es, node.id) # {}
    THEN <<Msg("unlabeled outgoing paths", <<node.text>>,
               Cardinality(unlabeledOutgoing(es, node.id)))>>
    ELSE <<>>
decisionVerdicts(ns, es) ==
    LET acc[i \in 0..Len(ns)] ==
            IF i = 0 THEN <<>> ELSE acc[i - 1] \o decisionVerdict(ns[i], es)
    IN  acc[Len(ns)]
decisionMessagesOf(msgs) ==
    SelectSeq(msgs, LAMBDA m : m.kind \in {"should have at least 2 outgoing paths",
                                           "unlabeled outgoing paths"})

(* C22: for each decision node with k outgoing edges of which u have an
   empty label, validation emits exactly one 'at least 2 outgoing paths'
   message and no unlabeled-paths message if k < 2, exactly one message
   with the count u if k >= 2 and u > 0, and no decision message if k >= 2
   and u = 0; other nodes get none of these messages.  The decision
   messages are, node by node in list order, exactly these. *)
C22_DecisionMessages ==
    (lastOp.name = "validateFlowchart" /\ Len(nodes) >= 1) =>
        decisionMessagesOf(messages) = decisionVerdicts(nodes, edges)
C22_Witness ==
    /\ lastOp.name = "validateFlowchart"
    /\ \E i \in 1..Len(nodes) :
           /\ nodes[i].nodeType = "decision"
           /\ Cardinality(outgoing(edges, nodes[i].id)) = 3
           /\ Cardinality(unlabeledOutgoing(edges, nodes[i].id)) = 2
    /\ \E j \in 1..Len(messages) :
           messages[j].kind = "unlabeled outgoing paths" /\ messages[j].count = 2

(* what the claim asks of one node: an incoming edge is required unless
   the node is a start node, an outgoing edge unless it is an end node *)
missesIncoming(node, es) == node.nodeType # "start" /\ incoming(es, node.id) = {}
missesOutgoing(node, es) == node.nodeType # "end" /\ outgoing(es, node.id) = {}
connectivityVerdict(node, es) ==
    IF missesIncoming(node, es) /\ missesOutgoing(node, es)
    THEN <<Msg("is completely disconnected", <<node.text>>, 0)>>
    ELSE IF missesIncoming(node, es)
    THEN <<Msg("has no incoming connections", <<node.text>>, 0)>>
    ELSE IF missesOutgoing(node, es)
    THEN <<Msg("has no outgoing connections", <<node.text>>, 0)>>
    ELSE <<>>
connectivityVerdicts(ns, es) ==
    LET acc[i \in 0..Len(ns)] ==
            IF i = 0 THEN <<>> ELSE acc[i - 1] \o connectivityVerdict(ns[i], es)
    IN  acc[Len(ns)]
connectivityMessagesOf(msgs) ==
    SelectSeq(msgs, LAMBDA m : m.kind \in {"is completely disconnected",
                                           "has no incoming connections",
                                           "has no outgoing connections"})

(* C23: for every node of a non-empty graph validation emits at most one
   connectivity message: 'completely disconnected' exactly when a required
   incoming and a required outgoing edge are both missing, 'no incoming
   connections' exactly when only the required incoming edge is missing,
   'no outgoing connections' exactly when only the required outgoing edge
   is missing, none otherwise.  The connectivity messages are, node by node
   in list order, exactly these. *)
C23_ConnectivityMessages ==
    (lastOp.name = "validateFlowchart" /\ Len(nodes) >= 1) =>
        connectivityMessagesOf(messages) = connectivityVerdicts(nodes, edges)
C23_Witness ==
    /\ lastOp.name = "validateFlowchart"
    /\ Len(nodes) = 3
    /\ missesIncoming(nodes[1], edges) /\ missesOutgoing(nodes[1], edges)
    /\ missesIncoming(nodes[2], edges) /\ ~missesOutgoing(nodes[2], edges)
    /\ ~missesIncoming(nodes[3], edges) /\ missesOutgoing(nodes[3], edges)
    /\ Len(connectivityMessagesOf(messages)) = 3

(* the outline of the shape of a node: the centred offsets u, v of the
   point in units of the half width and the half height *)
unitX(node, p) == FDiv(FSub(p.x, Whole(node.x)), Frac(node.width, 2))
unitY(node, p) == FDiv(FSub(p.y, Whole(node.y)), Frac(node.height, 2))
onEllipse(u, v) == FAdd(FMul(u, u), FMul(v, v)) = Whole(1)
onRectangle(u, v) ==
    \/ FAbs(u) = Whole(1) /\ FLeq(FAbs(v), Whole(1))
    \/ FAbs(v) = Whole(1) /\ FLeq(FAbs(u), Whole(1))
onRhombus(u, v) == FAdd(FAbs(u), FAbs(v)) = Whole(1)
(* the sides x = nx -+ w/2 - (w/4) * relY, that is u = -+1 - v / 2; top and
   bottom v = -+1 between them *)
onParallelogram(u, v) ==
    \/ FLeq(FAbs(v), Whole(1)) /\ FAbs(FAdd(u, FMul(v, Frac(1, 2)))) = Whole(1)
    \/ FAbs(v) = Whole(1) /\ FLeq(FAbs(FAdd(u, FMul(v, Frac(1, 2)))), Whole(1))
onOutline(node, p) ==
    CASE node.nodeType \in {"start", "end"} -> onEllipse(unitX(node, p), unitY(node, p))
      [] node.nodeType = "process" -> onRectangle(unitX(node, p), unitY(node, p))
      [] node.nodeType = "decision" -> onRhombus(unitX(node, p), unitY(node, p))
      [] node.nodeType = "input" -> onParallelogram(unitX(node, p), unitY(node, p))

(* C24: for every node type, every node size and every position of the
   other node distinct from the node's centre, the point
   getConnectionPoint(node, otherNode) returns lies on the outline of the
   node's shape. *)
C24_ConnectionPointOnOutline ==
    lastOp.name = "drawEdge" =>
        /\ onOutline(nodes[1], result.source)
        /\ onOutline(nodes[2], result.target)

(* the eight-pixel square centred on a corner of the node, and the corner
   whose square holds the point *)
inSquare(x, y, cx, cy) == Abs(x - cx) <= 4 /\ Abs(y - cy) <= 4
handleZone(node, x, y) ==
    LET west == node.x - node.width \div 2
        east == node.x + node.width \div 2
        north == node.y - node.height \div 2
        south == node.y + node.height \div 2
    IN  IF inSquare(x, y, west, north) THEN "nw"
        ELSE IF inSquare(x, y, east, north) THEN "ne"
        ELSE IF inSquare(x, y, east, south) THEN "se"
        ELSE IF inSquare(x, y, west, south) THEN "sw"
        ELSE "null"
selectedNodeZone(x, y) ==
    IF selectedItem.type = "node" /\ hasNode(nodes, selectedItem.id)
    THEN handleZone(findNode(nodes, selectedItem.id), x, y)
    ELSE "null"
nodesAt(x, y) == {i \in 1..Len(nodes) : containsPoint(nodes[i], x, y)}

(* C25: getItemAtPosition(x, y) returns a resize handle of the selected
   node if the point is in one of its handle zones, the eight-pixel squares
   centred on its corners, even when a node or an edge lies under the
   point; otherwise the last-inserted node whose shape contains the point;
   otherwise an edge near the point; otherwise null.  It never returns a
   handle of a node that is not selected. *)
C25_HitPriority ==
    lastOp.name = "getItemAtPosition" =>
        LET x == lastOp.args[1]
            y == lastOp.args[2]
            near == lastOp.args[3]
        IN  /\ IF selectedNodeZone(x, y) # "null"
               THEN result = [type |-> "resize-handle", nodeId |-> selectedItem.id,
                              position |-> selectedNodeZone(x, y)]
               ELSE IF nodesAt(x, y) # {}
               THEN \E i \in nodesAt(x, y) :
                       /\ \A j \in nodesAt(x, y) : j <= i
                       /\ result = nodeItem(nodes[i])
               ELSE IF near # 0
               THEN result = edgeItem(edges[near])
               ELSE result = Null
            /\ result.type = "resize-handle" =>
                   selectedItem.type = "node" /\ result.nodeId = selectedItem.id

(* C26: saveFlowchart(name, data) fails with the quota-exceeded error,
   distinct from the generic 'Failed to save flowchart' error, whenever any
   of its storage writes fails because the quota is exceeded, the write of
   the name index when name is new included, and fails with the generic
   error for every other write failure. *)
C26_QuotaErrorOnEveryWrite ==
    [][(lastOp'.name = "StorageManager.saveFlowchart" /\ listIsArray(localStorage)) =>
          LET indexWritten == ~includes(getFlowchartList(localStorage), lastOp'.args[1])
              failure == IF indexWritten /\ lastOp'.writes[1] # "ok"
                         THEN lastOp'.writes[1]
                         ELSE lastOp'.writes[2]
          IN  /\ QuotaMessage # SaveFailedMessage
              /\ failure = "QuotaExceededError" =>
                     thrown' /\ result' = [error |-> QuotaMessage]
              /\ failure \notin {"ok", "QuotaExceededError"} =>
                     thrown' /\ result' = [error |-> SaveFailedMessage]]_vars

(* the messages that tell that the flowchart of a name does not exist *)
notFoundErrors(name) ==
    {notFoundMessage(name),
     "Failed to load flowchart: " \o notFoundMessage(name),
     "Failed to delete flowchart: " \o notFoundMessage(name)}
listedNames(storage) ==
    IF listIsArray(storage)
    THEN {getFlowchartList(storage)[i] : i \in 1..Len(getFlowchartList(storage))}
    ELSE {}

(* C27: loadFlowchart(name) and deleteFlowchart(name) for a name that is
   not stored each fail with an error that identifies the flowchart as not
   found and that differs from the error the same operation reports for any
   other failure; storage is unchanged by the failed call. *)
C27_NotFoundIsDistinct ==
    [][/\ (lastOp'.name = "StorageManager.loadFlowchart"
           /\ getItem(localStorage, flowchartKey(lastOp'.args[1])) = Null) =>
              /\ thrown'
              /\ result'.error \in notFoundErrors(lastOp'.args[1])
              /\ localStorage' = localStorage
       /\ (lastOp'.name = "StorageManager.deleteFlowchart"
           /\ listIsArray(localStorage)
           /\ lastOp'.args[1] \notin listedNames(localStorage)) =>
              /\ thrown'
              /\ result'.error \in notFoundErrors(lastOp'.args[1])
              /\ result'.error # DeleteFailedMessage
              /\ localStorage' = localStorage]_vars

listCount(storage, name) ==
    IF listIsArray(storage)
    THEN Cardinality({i \in 1..Len(getFlowchartList(storage)) :
                        getFlowchartList(storage)[i] = name})
    ELSE 0
sameLoad(before, after, name) ==
    \E b \in {StorageManager_loadFlowchart(before, name)},
       a \in {StorageManager_loadFlowchart(after, name)} :
        /\ a.thrown = b.thrown
        /\ ~a.thrown => getItem(after, flowchartKey(name)) = getItem(before, flowchartKey(name))
loads(storage, name, data) ==
    \E r \in {StorageManager_loadFlowchart(storage, name)} :
        ~r.thrown /\ r.value = data

(* C28: a successful saveFlowchart(n, d) makes loadFlowchart(n) return d and
   puts n in getFlowchartList() exactly once; a successful deleteFlowchart(n)
   takes n out of the list and makes loadFlowchart(n) fail; neither changes
   what loadFlowchart returns for another name nor how often another name
   is in the list.  Hence after any sequence of successful calls the last
   write wins and the list holds each saved name once and no deleted name. *)
C28_LastWriteWins ==
    [][/\ (lastOp'.name = "StorageManager.saveFlowchart" /\ ~thrown') =>
              /\ loads(localStorage', lastOp'.args[1], lastOp'.args[2])
              /\ listCount(localStorage', lastOp'.args[1]) = 1
       /\ (lastOp'.name = "StorageManager.deleteFlowchart" /\ ~thrown') =>
              /\ StorageManager_loadFlowchart(localStorage', lastOp'.args[1]).thrown
              /\ listCount(localStorage', lastOp'.args[1]) = 0
       /\ (lastOp'.name \in {"StorageManager.saveFlowchart",
                             "StorageManager.deleteFlowchart"} /\ ~thrown') =>
              \A other \in FlowchartNames \ {lastOp'.args[1]} :
                  /\ listCount(localStorage', other) = listCount(localStorage, other)
                  /\ other \in listedNames(localStorage) =>
                         sameLoad(localStorage, localStorage', other)]_vars

(* the id is the id of no node, or of no edge, of the graph *)
staleNode(nodeId) == ~hasNode(nodes, nodeId)
staleEdge(edgeId) == ~hasEdge(edges, edgeId)
staleItem(item) ==
    \/ item.type = "node" /\ staleNode(item.id)
    \/ item.type = "edge" /\ staleEdge(item.id)

(* C29: updateNodeText, updateEdgeLabel and deleteItem called with the id of
   a node or edge that is not in the graph are no-ops: nodes, edges and the
   selection are unchanged and no graph-changed notification is raised. *)
C29_StaleIdIsNoOp ==
    [][(\/ lastOp'.name = "updateNodeText" /\ staleNode(lastOp'.args[1])
        \/ lastOp'.name = "updateEdgeLabel" /\ staleEdge(lastOp'.args[1])
        \/ lastOp'.name = "deleteItem" /\ staleItem(lastOp'.args[1])) =>
          /\ nodes' = nodes
          /\ edges' = edges
          /\ selectedItem' = selectedItem
          /\ notified' = <<>>]_vars

(* no gesture in progress, and what a select-mode pointer-down on the item
   leaves behind *)
idle == ~isDragging /\ ~isPanning /\ ~isResizing /\ connectionStartNode = NullId
selectDownOutcome(item) ==
    /\ CASE item.type = "null" ->
               /\ selectedItem' = Null
               /\ isPanning' /\ ~isDragging' /\ ~isResizing'
               /\ resizeDirection' = resizeDirection
          [] item.type = "node" ->
               /\ selectedItem' = item
               /\ isDragging' /\ ~isPanning' /\ ~isResizing'
               /\ resizeDirection' = resizeDirection
          [] item.type = "resize-handle" ->
               /\ selectedItem' = selectedItem
               /\ selectedItem.type = "node" /\ selectedItem.id = item.nodeId
               /\ isResizing' /\ ~isDragging' /\ ~isPanning'
               /\ resizeDirection' = item.position
          [] item.type = "edge" ->
               /\ selectedItem' = item
               /\ ~isDragging' /\ ~isPanning' /\ ~isResizing'
               /\ resizeDirection' = resizeDirection
    /\ connectionStartNode' = NullId
    /\ nodes' = nodes
    /\ edges' = edges

(* C30: in select mode with no gesture in progress, a pointer-down on empty
   space clears the selection and sets only the panning state; on a node it
   selects that node and sets only the dragging state; on a resize handle of
   the selected node it sets only the resizing state with that handle's
   corner and keeps the selection; on an edge it selects that edge and sets
   no transient state.  In none of these cases are nodes or edges added or
   removed.  The item is the one getItemAtPosition finds at the canvas
   point of the event, which the handler keeps in startX, startY. *)
C30_SelectPointerDown ==
    [][(lastOp'.name = "handleMouseDown" /\ mode = "select" /\ idle) =>
          \E near \in NearChoices :
              selectDownOutcome(getItemAtPosition(startX', startY', near))]_vars

C30_Witness ==
    /\ lastOp.name = "handleMouseDown"
    /\ mode = "select"
    /\ isResizing /\ ~isDragging /\ ~isPanning
    /\ resizeDirection # "null"
    /\ selectedItem.type = "node"

(* what a connect-mode pointer-down on the item leaves behind *)
connectDownOutcome(item) ==
    IF item.type = "node" /\ connectionStartNode = NullId
    THEN connectionStartNode' = item.id /\ edges' = edges /\ nodes' = nodes
    ELSE IF item.type = "node" /\ item.id # connectionStartNode
    THEN /\ existingEdge(edges', connectionStartNode, item.id)
         /\ connectionStartNode' = NullId
         /\ nodes' = nodes
    ELSE /\ nodes' = nodes
         /\ edges' = edges
         /\ connectionStartNode' = connectionStartNode
         /\ selectedItem' = selectedItem
noSelfLoop(es) == \A i \in 1..Len(es) : es[i].sourceId # es[i].targetId

(* C31: in connect mode a pointer-down on node A with no pending connection
   records A as pending source and creates no edge; a pointer-down on a node
   B different from the pending source A makes edge A->B exist and clears
   the pending source; a pointer-down on the pending source itself, on an
   edge or on empty space changes neither the graph, the pending source nor
   the selection; and no pointer event creates an edge whose source equals
   its target. *)
C31_ConnectPointerDown ==
    [][/\ (lastOp'.name = "handleMouseDown" /\ mode = "connect") =>
              \E near \in NearChoices :
                  connectDownOutcome(getItemAtPosition(startX', startY', near))
       /\ noSelfLoop(edges) => noSelfLoop(edges')]_vars

(* C32: in connect mode a drag-style gesture (pointer-down on node A,
   pointer-move over a different node B, pointer-up) creates the edge A->B
   and leaves no pending connection, so that a following pointer-down on a
   third node C starts a new pending connection from C and creates no edge
   A->C.  Stated on the release: a pointer-up in connect mode over a node
   other than the pending source makes the edge exist and clears the
   pending source. *)
C32_DragGestureCompletes ==
    [][(/\ lastOp'.name = "handleMouseUp"
        /\ mode = "connect"
        /\ connectionStartNode # NullId
        /\ hoveredItem.type = "node"
        /\ hoveredItem.id # connectionStartNode) =>
          /\ existingEdge(edges', connectionStartNode, hoveredItem.id)
          /\ connectionStartNode' = NullId]_vars

(* the nodes other than the one with the id are the same in both lists *)
othersUnchanged(before, after, id) ==
    /\ Len(after) = Len(before)
    /\ \A i \in 1..Len(before) : before[i].id # id => after[i] = before[i]

(* C33: during a node drag every pointer-move displaces the dragged node
   by exactly the displacement of the pointer's canvas-space position
   since the previous pointer event (startX, startY hold that position),
   so the node's displacement since pointer-down is the pointer's, however
   many moves there were; the node's width, height, id and text, every
   other node and every edge are unchanged *)
C33_DragFollowsPointer ==
    [][(/\ lastOp'.name = "handleMouseMove"
        /\ isDragging
        /\ selectedItem.type = "node"
        /\ findNode(nodes, selectedItem.id) # Null) =>
          \E before \in {findNode(nodes, selectedItem.id)} :
          \E after \in {findNode(nodes', selectedItem.id)} :
          \E client \in GesturePoints :
          \E p \in {viewportToCanvas(client.x, client.y)} :
              /\ startX' = p.x /\ startY' = p.y
              /\ after.x - before.x = p.x - startX
              /\ after.y - before.y = p.y - startY
              /\ after = [before EXCEPT !.x = after.x, !.y = after.y]
              /\ othersUnchanged(nodes, nodes', selectedItem.id)
              /\ edges' = edges]_vars

(* node_1, pressed at its centre (100, 100), after two displacing moves
   that end at (330, 290) *)
C33_Witness ==
    /\ lastOp.name = "handleMouseMove"
    /\ isDragging
    /\ moves = MaxGestureMoves
    /\ selectedItem.type = "node"
    /\ selectedItem.id = NodeId(1)
    /\ startX = 330 /\ startY = 290
    /\ nodes[1].x = 330 /\ nodes[1].y = 290

(* C34: after every pointer-move of a panning gesture the canvas-space
   point under the pointer is the point stored at pointer-down (startX,
   startY, which the move leaves as they are), the offset has moved by the
   pointer's canvas-space delta, and scale, nodes and edges are unchanged *)
C34_PanKeepsPointUnderPointer ==
    [][(lastOp'.name = "handleMouseMove" /\ isPanning) =>
          \E before \in {canvasPoint(camera, lastOp'.args[1], lastOp'.args[2])} :
          \E under \in {canvasPoint(camera', lastOp'.args[1], lastOp'.args[2])} :
              /\ under.x = startX /\ under.y = startY
              /\ startX' = startX /\ startY' = startY
              /\ FSub(offsetX', offsetX) = FSub(before.x, startX)
              /\ FSub(offsetY', offsetY) = FSub(before.y, startY)
              /\ scale' = scale
              /\ nodes' = nodes
              /\ edges' = edges]_vars

(* two displacing pan moves at a scale other than 1 that leave a
   fractional offset *)
C34_Witness ==
    /\ lastOp.name = "handleMouseMove"
    /\ isPanning
    /\ moves = MaxPanMoves
    /\ scale # Whole(1)
    /\ offsetX[2] # 1

(* C35: getResizeHandleAt(node, x, y) returns corner c exactly when the
   point lies in the eight-pixel square centred on corner c of the node's
   bounding box, the square drawNode paints, and null for every other
   point; checked on the selected node and the point of every hit test *)
C35_HandleIsPaintedSquare ==
    (/\ lastOp.name = "getItemAtPosition"
     /\ selectedItem.type = "node"
     /\ hasNode(nodes, selectedItem.id)) =>
        \E node \in {findNode(nodes, selectedItem.id)} :
            getResizeHandleAt(node, lastOp.args[1], lastOp.args[2])
                = handleZone(node, lastOp.args[1], lastOp.args[2])

(* the sets of nodes a listed sequence of texts can denote: the node sets
   of the id sequences n1, ..., nk, n1 that carry these texts and in which
   each consecutive pair is an edge *)
listedCycles(ns, es, names) ==
    {Range(ids) : ids \in
        {s \in [1..Len(names) -> {ns[i].id : i \in 1..Len(ns)}] :
            /\ Len(names) >= 2
            /\ s[1] = s[Len(names)]
            /\ \A i \in 1..Len(names) : textOf(ns, s[i]) = names[i]
            /\ \A i \in 1..(Len(names) - 1) : <<s[i], s[i + 1]>> \in edgePairs(es)}}

(* C36: every cycle message of a validation run lists a node sequence
   n1, ..., nk, n1 whose consecutive pairs are edges of the graph, no two
   cycle messages of the run denote the same node set, and there is no
   cycle message for a back-reference to a node that is not on the current
   DFS path (the message without a node list) *)
C36_CycleMessagesListCycles ==
    lastOp.name = "validateFlowchart" =>
        \E cms \in {cycleMessages(messages)} :
            /\ \A i \in 1..Len(cms) :
                   /\ cms[i].kind = "Cycle detected:"
                   /\ listedCycles(nodes, edges, cms[i].names) # {}
            /\ \A i \in 1..Len(cms), j \in 1..Len(cms) :
                   i < j =>
                       \E a \in listedCycles(nodes, edges, cms[i].names),
                          b \in listedCycles(nodes, edges, cms[j].names) : a # b

(* C37: whenever a node is selected, the text, x, y, width and height of
   the item getSelectedItem() returns are those of the live node of the
   same id, and the label of a selected edge is the live edge's label *)
C37_SelectionMirrorsLiveItem ==
    /\ (selectedItem.type = "node" /\ hasNode(nodes, selectedItem.id)) =>
           \E node \in {findNode(nodes, selectedItem.id)} :
               /\ selectedItem.text = node.text
               /\ selectedItem.x = node.x /\ selectedItem.y = node.y
               /\ selectedItem.width = node.width
               /\ selectedItem.height = node.height
    /\ (selectedItem.type = "edge" /\ hasEdge(edges, selectedItem.id)) =>
           \E i \in 1..Len(edges) :
               /\ edges[i].id = selectedItem.id
               /\ \A j \in 1..(i - 1) : edges[j].id # selectedItem.id
               /\ selectedItem.label = edges[i].label

(* C38: in every state reached by setMode calls and pointer-down, move and
   up events in any order, at most one of isDragging, isResizing and
   isPanning is true, and isDragging or isResizing is true only while the
   mode is select *)
C38_OneGestureAtATime ==
    /\ ~(isDragging /\ isResizing)
    /\ ~(isDragging /\ isPanning)
    /\ ~(isResizing /\ isPanning)
    /\ (isDragging \/ isResizing) => mode = "select"

(* C39: on every graph the controller's operations reach, the validation
   an operation triggers completes without raising an exception, so the
   operation runs to completion: no step ends with an exception thrown,
   and after a pointer-up the transient gesture state is reset *)
C39_ValidationCompletes ==
    /\ ~thrown
    /\ lastOp.name = "handleMouseUp" =>
           /\ ~isDragging /\ ~isPanning /\ ~isResizing
           /\ resizeDirection = "null"

(* C40: in every storage state, also after a saveFlowchart or a
   deleteFlowchart that failed at one of its writes, the names of the name
   index are exactly the names for which flowchart data is stored (the
   name whose data key is the key of the index itself is left aside) *)
C40_IndexMatchesData ==
    \A name \in FlowchartNames :
        flowchartKey(name) # FLOWCHART_LIST_KEY =>
            (name \in listedNames(localStorage)
                 <=> getItem(localStorage, flowchartKey(name)) # Null)

====
